---------------------------- MODULE Spec2Model ----------------------------
(***************************************************************************)
(* A model of the OpenType / AAT shaping engine of boxesandglue/typesetting *)
(* (a Go port of HarfBuzz).  The module holds several specifications that   *)
(* share one set of variables:                                              *)
(*   Spec        one shaper driving otMap.apply over a font (GSUB, GPOS)    *)
(*   SpecShared  two shapers that share one compiled plan                   *)
(*   SpecFlags   glyph flags, cluster merging and propagateFlags            *)
(*   SpecMap     otMapBuilder.compile                                       *)
(*   SpecReorder the Khmer, USE and Indic syllable reordering               *)
(*   SpecDigest  the set digest                                             *)
(*   SpecSkip    the skipping iterator                                      *)
(***************************************************************************)
EXTENDS Integers, Sequences, FiniteSets, TLC

VARIABLES font, plan, buffers, shapers, hist, pf, mb, ro, sd, it, cl, lg, lp, aat, gp, vr

vars == <<font, plan, buffers, shapers, hist, pf, mb, ro, sd, it, cl, lg, lp, aat, gp, vr>>

(***************************************************************************)
(* Bounds of the model.  The limits of shape() are scaled down so that the  *)
(* small buffers of the model exhaust them: the code uses                   *)
(* maxLenFactor = 64, maxLenMin = 16384, maxOpsFactor = 1024 and            *)
(* maxOpsMin = 16384 (ot_shaper.go 784-787).                                *)
(***************************************************************************)
maxLenFactor == 2

maxLenMin == 4

maxOpsFactor == 1

maxOpsMin == 3

\* deepest Go call stack of nested lookups the model follows
MaxStack == 66

\* most DontAdvance transitions of a font's morx state machine
MaxStall == 4

\* number of shape() calls a shaper makes on the same input
MaxRuns == 2

(***************************************************************************)
(* Values of the program.                                                   *)
(***************************************************************************)
maxNestingLevel == 64

maxContextLength == 64

maxOpsDefault == 536870911

maxLenDefault == 1073741823

maskBits == 32

lcgA == 48271

lcgPrime == 2147483647

Max(a, b) == IF a >= b THEN a ELSE b

Min(a, b) == IF a <= b THEN a ELSE b

Range(s) == {s[k] : k \in DOMAIN s}

(***************************************************************************)
(* setDigest: three 32 bit masks, each a set of bit positions.              *)
(***************************************************************************)
digestShifts == <<16, 1, 512>>

emptyDigest == <<{}, {}, {}>>

maskFor(g, k) == (g \div digestShifts[k]) % maskBits

digestAdd(d, g) == [k \in 1..3 |-> d[k] \cup {maskFor(g, k)}]

RECURSIVE digestAddArray(_, _)
digestAddArray(d, gs) ==
    IF gs = {} THEN d
    ELSE LET g == CHOOSE x \in gs : TRUE
         IN digestAddArray(digestAdd(d, g), gs \ {g})

mayHave(d, g) == \A k \in 1..3 : maskFor(g, k) \in d[k]

mayHaveDigest(d, o) == \A k \in 1..3 : d[k] \cap o[k] # {}

(***************************************************************************)
(* Buffer.  A buffer is [info, out, idx, haveOutput, maxOps, maxLen]; info  *)
(* and out are sequences of glyph ids, idx is the 0-based cursor.           *)
(***************************************************************************)
bufferDigest(b) == digestAddArray(emptyDigest, Range(b.info))

backtrackLen(b) == IF b.haveOutput THEN Len(b.out) ELSE b.idx

lookaheadLen(b) == Len(b.info) - b.idx

clearOutput(b) == [b EXCEPT !.haveOutput = TRUE, !.out = <<>>, !.idx = 0]

swapBuffers(b) ==
    [b EXCEPT !.info = b.out \o SubSeq(b.info, b.idx + 1, Len(b.info)),
              !.out = <<>>, !.idx = 0, !.haveOutput = FALSE]

nextGlyph(b) ==
    IF b.haveOutput
    THEN [b EXCEPT !.out = Append(b.out, b.info[b.idx + 1]), !.idx = b.idx + 1]
    ELSE [b EXCEPT !.idx = b.idx + 1]

\* moveTo(i): make the output (or, without output, the cursor) i glyphs long
moveTo(b, i) ==
    IF ~b.haveOutput THEN [b EXCEPT !.idx = i]
    ELSE IF Len(b.out) < i
    THEN LET n == i - Len(b.out)
         IN [b EXCEPT !.out = b.out \o SubSeq(b.info, b.idx + 1, b.idx + n),
                      !.idx = b.idx + n]
    ELSE IF Len(b.out) > i
    THEN LET n == Len(b.out) - i
             keep == IF b.idx >= n THEN b.idx - n ELSE b.idx
         IN [b EXCEPT !.out = SubSeq(b.out, 1, i),
                      !.info = SubSeq(b.info, 1, keep)
                               \o SubSeq(b.out, i + 1, Len(b.out))
                               \o SubSeq(b.info, b.idx + 1, Len(b.info)),
                      !.idx = keep]
    ELSE b

\* replace the glyph under the cursor by the glyphs gs and advance
replaceGlyphs(b, gs) ==
    [b EXCEPT !.out = b.out \o gs, !.idx = b.idx + 1]

cur(b) == b.info[b.idx + 1]

(***************************************************************************)
(* Fonts.  A lookup is [kind, first, input, recs, to]:                      *)
(*   "single"    first -> to[1]                                             *)
(*   "multiple"  first -> to                                                *)
(*   "alternate" first -> one of to, chosen by randomNumber                 *)
(*   "ligature"  first followed by input -> to[1]                           *)
(*   "context"   first followed by input; recs are the lookup records       *)
(*   "pos"       a positioning lookup covering first                        *)
(* Lookup indices are 0-based as in the font tables.                        *)
(***************************************************************************)
LK(kind, first, input, recs, to) ==
    [kind |-> kind, first |-> first, input |-> input, recs |-> recs, to |-> to]

LR(seqIdx, lookup) == [seq |-> seqIdx, lookup |-> lookup]

LM(index, random) == [index |-> index, random |-> random]

ST(lastLookup, pause) == [lastLookup |-> lastLookup, pause |-> pause]

\* a context lookup whose only record applies the lookup itself
fontChain ==
    [applyMorx |-> FALSE, stall |-> 0,
     gsub |-> << LK("context", 1, <<>>, << LR(0, 0) >>, <<>>) >>,
     gpos |-> <<>>,
     lookups |-> << << LM(0, FALSE) >>, <<>> >>,
     stages |-> << << ST(1, "nil") >>, << ST(0, "nil") >> >>]

\* a context lookup with records that substitute, grow and miss; a pause;
\* random alternate lookups; before them a morx state machine that takes
\* stall transitions flagged DontAdvance on the first glyph
fontNest(stall) ==
    [applyMorx |-> TRUE, stall |-> stall,
     gsub |-> << LK("context", 1, <<2>>,
                    << LR(0, 1), LR(1, 2), LR(7, 1), LR(2, 3), LR(1, 1) >>, <<>>),
                 LK("single", 1, <<>>, <<>>, <<3>>),
                 LK("multiple", 2, <<>>, <<>>, <<2, 2>>),
                 LK("alternate", 2, <<>>, <<>>, <<4, 5, 6>>),
                 LK("alternate", 3, <<>>, <<>>, <<4, 5, 6>>) >>,
     gpos |-> << LK("pos", 2, <<>>, <<>>, <<>>) >>,
     lookups |-> << << LM(0, FALSE), LM(3, TRUE), LM(4, TRUE) >>,
                    << LM(0, FALSE) >> >>,
     stages |-> << << ST(1, "refresh"), ST(3, "nil") >>, << ST(1, "nil") >> >>]

\* a multiple substitution applied in three stages, then positioning
fontGrow ==
    [applyMorx |-> FALSE, stall |-> 0,
     gsub |-> << LK("multiple", 1, <<>>, <<>>, <<1, 1>>),
                 LK("single", 5, <<>>, <<>>, <<6>>) >>,
     gpos |-> << LK("pos", 1, <<>>, <<>>, <<>>) >>,
     lookups |-> << << LM(0, FALSE), LM(1, FALSE), LM(0, FALSE), LM(0, FALSE) >>,
                    << LM(0, FALSE) >> >>,
     stages |-> << << ST(2, "keep"), ST(3, "nil"), ST(4, "nil") >>,
                   << ST(1, "nil") >> >>]

\* one single substitution
fontTiny ==
    [applyMorx |-> FALSE, stall |-> 0,
     gsub |-> << LK("single", 1, <<>>, <<>>, <<2>>) >>,
     gpos |-> <<>>,
     lookups |-> << << LM(0, FALSE) >>, <<>> >>,
     stages |-> << << ST(1, "nil") >>, << ST(0, "nil") >> >>]

\* a context lookup of three glyphs whose first record forms a ligature of
\* the first two and whose second record substitutes at the position after
fontLig ==
    [applyMorx |-> FALSE, stall |-> 0,
     gsub |-> << LK("context", 1, <<2, 2>>, << LR(0, 1), LR(1, 2) >>, <<>>),
                 LK("ligature", 1, <<2>>, <<>>, <<7>>),
                 LK("single", 2, <<>>, <<>>, <<3>>) >>,
     gpos |-> <<>>,
     lookups |-> << << LM(0, FALSE) >>, <<>> >>,
     stages |-> << << ST(1, "nil") >>, << ST(0, "nil") >> >>]

\* a context lookup of one glyph whose record forms a ligature of that glyph
\* and the two glyphs behind the match
fontLigBeyond ==
    [applyMorx |-> FALSE, stall |-> 0,
     gsub |-> << LK("context", 1, <<>>, << LR(0, 1) >>, <<>>),
                 LK("ligature", 1, <<2, 2>>, <<>>, <<7>>) >>,
     gpos |-> <<>>,
     lookups |-> << << LM(0, FALSE) >>, <<>> >>,
     stages |-> << << ST(1, "nil") >>, << ST(0, "nil") >> >>]

\* a context lookup of two glyphs whose records make three positions of
\* them, then maxContextLength positions, then would make one more
fontWide ==
    [applyMorx |-> FALSE, stall |-> 0,
     gsub |-> << LK("context", 1, <<2>>, << LR(1, 1), LR(0, 2), LR(1, 3) >>, <<>>),
                 LK("multiple", 2, <<>>, <<>>, <<2, 2>>),
                 LK("multiple", 1, <<>>, <<>>,
                    [j \in 1..(maxContextLength - 2) |-> IF j = 1 THEN 1 ELSE 9]),
                 LK("multiple", 9, <<>>, <<>>, <<9, 9>>) >>,
     gpos |-> <<>>,
     lookups |-> << << LM(0, FALSE) >>, <<>> >>,
     stages |-> << << ST(1, "nil") >>, << ST(0, "nil") >> >>]

Fonts ==
    {fontChain, fontGrow, fontLig, fontLigBeyond, fontWide}
    \cup {fontNest(k) : k \in 0..MaxStall}

Inputs == {<<1>>, <<2>>, <<1, 1>>, <<1, 2>>, <<2, 1>>, <<2, 2>>, <<1, 2, 2>>}

tableLookups(f, t) == IF t = 0 THEN f.gsub ELSE f.gpos

\* the glyphs a lookup covers, and the digest of its accelerator
collectCoverage(l) == digestAddArray(emptyDigest, {l.first})

(***************************************************************************)
(* otApplyContext                                                           *)
(***************************************************************************)
zeroContext ==
    [buffer |-> 0, recurseFunc |-> "nil", nestingLevelLeft |-> 0,
     tableIndex |-> 0, lookupMask |-> 0, lookupProps |-> 0, randomState |-> 0,
     lookupIndex |-> 0, autoZWNJ |-> FALSE, autoZWJ |-> FALSE,
     perSyllable |-> FALSE, newSyllables |-> 0, random |-> FALSE,
     lastBase |-> 0, lastBaseUntil |-> 0, digest |-> emptyDigest]

\* a reset that seeds randomState only in a context never used before
resetSeedOnce(c, tableIndex, bufId, b) ==
    [c EXCEPT !.buffer = bufId, !.recurseFunc = "nil",
              !.digest = bufferDigest(b),
              !.nestingLevelLeft = maxNestingLevel,
              !.tableIndex = tableIndex, !.lookupMask = 1, !.lookupProps = 0,
              !.randomState = IF c.randomState = 0 THEN 1 ELSE c.randomState,
              !.lookupIndex = 0,
              !.autoZWNJ = TRUE, !.autoZWJ = TRUE, !.perSyllable = FALSE,
              !.newSyllables = 255, !.random = FALSE,
              !.lastBase = -1, !.lastBaseUntil = 0]

reset(c, tableIndex, bufId, b) ==
    [c EXCEPT !.buffer = bufId, !.recurseFunc = "nil",
              !.digest = bufferDigest(b),
              !.nestingLevelLeft = maxNestingLevel,
              !.tableIndex = tableIndex, !.lookupMask = 1, !.lookupProps = 0,
              !.randomState = 1, !.lookupIndex = 0,
              !.autoZWNJ = TRUE, !.autoZWJ = TRUE, !.perSyllable = FALSE,
              !.newSyllables = 255, !.random = FALSE,
              !.lastBase = -1, !.lastBaseUntil = 0]

\* (s * 48271 mod 2^32) mod 2147483647, computed on 16-bit halves
randomNext(s) ==
    LET sl == s % 65536
        sh == s \div 65536
        kl == lcgA % 256
        kh == lcgA \div 256
        a == sl * kl
        bb == sl * kh
        t0 == a + (bb % 256) * 256
        low16 == t0 % 65536
        t1 == (t0 \div 65536) + (bb \div 256) + sh * kl + ((sh * kh) % 256) * 256
        high16 == t1 % 65536
        hiBit == high16 \div 32768
        low31 == (high16 % 32768) * 65536 + low16
    IN IF low31 = lcgPrime THEN hiBit ELSE (low31 + hiBit) % lcgPrime

randomNumber(c) == [c EXCEPT !.randomState = randomNext(c.randomState)]

\* setGlyphClassExt: every substituted glyph is added to the context's digest
\* a substitution that leaves the digest as it is
setGlyphClassNoDigest(c, gs) == c

setGlyphClass(c, gs) == [c EXCEPT !.digest = digestAddArray(c.digest, Range(gs))]

\* a recurse that looks at the nesting level only
recurseIgnoreOps(c, b) ==
    IF c.nestingLevelLeft = 0 \/ c.recurseFunc = "nil"
    THEN [invoke |-> FALSE, maxOps |-> b.maxOps - 1]
    ELSE [invoke |-> TRUE, maxOps |-> b.maxOps]

\* recurse: the guard of a nested lookup.  invoke says whether recurseFunc is
\* called; maxOps is the counter the guard leaves behind.
recurse(c, b) ==
    IF c.nestingLevelLeft = 0 \/ c.recurseFunc = "nil" \/ b.maxOps <= 0
    THEN IF b.maxOps <= 0
         THEN [invoke |-> FALSE, maxOps |-> b.maxOps - 1]
         ELSE [invoke |-> TRUE, maxOps |-> b.maxOps - 1]
    ELSE [invoke |-> TRUE, maxOps |-> b.maxOps]

\* does the input sequence of a context lookup match at the cursor
matchInput(b, l) ==
    /\ b.idx + 1 + Len(l.input) <= Len(b.info)
    /\ SubSeq(b.info, b.idx + 2, b.idx + 1 + Len(l.input)) = l.input

covers(l, g) == mayHave(collectCoverage(l), g) /\ g = l.first

\* dispatchApply of lookup l under the cursor: [ret, enter, c, b].  enter
\* says that a context matched and applyLookup has to run.
dispatchApply(c, b, l) ==
    IF ~covers(l, cur(b))
    THEN [ret |-> FALSE, enter |-> FALSE, c |-> c, b |-> b]
    ELSE CASE l.kind = "single" ->
                [ret |-> TRUE, enter |-> FALSE,
                 c |-> setGlyphClass(c, <<l.to[1]>>),
                 b |-> replaceGlyphs(b, <<l.to[1]>>)]
           [] l.kind = "multiple" ->
                [ret |-> TRUE, enter |-> FALSE,
                 c |-> setGlyphClass(c, l.to), b |-> replaceGlyphs(b, l.to)]
           [] l.kind = "alternate" ->
                LET c1 == IF c.random THEN randomNumber(c) ELSE c
                    alt == IF c.random
                           THEN l.to[(c1.randomState % Len(l.to)) + 1]
                           ELSE l.to[1]
                IN [ret |-> TRUE, enter |-> FALSE,
                    c |-> setGlyphClass(c1, <<alt>>),
                    b |-> replaceGlyphs(b, <<alt>>)]
           [] l.kind = "ligature" ->
                IF matchInput(b, l)
                THEN [ret |-> TRUE, enter |-> FALSE,
                      c |-> setGlyphClass(c, <<l.to[1]>>),
                      b |-> [b EXCEPT !.out = Append(b.out, l.to[1]),
                                      !.idx = b.idx + 1 + Len(l.input)]]
                ELSE [ret |-> FALSE, enter |-> FALSE, c |-> c, b |-> b]
           [] l.kind = "pos" ->
                [ret |-> TRUE, enter |-> FALSE, c |-> c,
                 b |-> [b EXCEPT !.idx = b.idx + 1]]
           [] OTHER ->
                IF matchInput(b, l)
                THEN [ret |-> TRUE, enter |-> TRUE, c |-> c, b |-> b]
                ELSE [ret |-> FALSE, enter |-> FALSE, c |-> c, b |-> b]

(***************************************************************************)
(* applyLookup.  One Go activation of applyLookup is a frame                *)
(* [recs, k, count, mp, end, origLen, seq, saved]: k lookup records are     *)
(* done, mp are the match positions (mp[j+1] is matchPositions[j]), and     *)
(* origLen, seq, saved belong to the nested call the frame is waiting for.  *)
(***************************************************************************)
\* adj is the last change a nested lookup made to the length of the buffer:
\* delta, and idx, end, mp and count as they were before the adjustment
noAdj == [delta |-> 0, idx |-> 0, end |-> 0, mp |-> <<>>, count |-> 0]

applyLookupEnter(b, l) ==
    LET count == Len(l.input) + 1
        matchEnd == b.idx + count
        bl == backtrackLen(b)
        delta == bl - b.idx
    IN [recs |-> l.recs, k |-> 0, count |-> count,
        mp |-> [j \in 1..count |-> b.idx + (j - 1) + delta],
        end |-> bl + matchEnd - b.idx,
        origLen |-> 0, seq |-> 0, saved |-> 0, adj |-> noAdj]

\* applyLookupAdjust without the test for maxContextLength
applyLookupAdjustNoLimit(f, b, ret) ==
    IF ~ret THEN [f EXCEPT !.k = f.k + 1]
    ELSE
    LET newLen == backtrackLen(b) + lookaheadLen(b)
        delta0 == newLen - f.origLen
        idx == f.seq
        pos == f.mp[idx + 1]
        end1 == f.end + delta0
        delta1 == IF end1 < pos THEN delta0 + pos - end1 ELSE delta0
        end2 == IF end1 < pos THEN pos ELSE end1
        next == idx + 1
        d == Max(delta1, next - f.count)
        g == [f EXCEPT !.adj = [delta |-> delta0, idx |-> idx, end |-> f.end,
                                mp |-> f.mp, count |-> f.count]]
    IN IF delta0 = 0 THEN [f EXCEPT !.k = f.k + 1]
       ELSE IF delta1 > 0
       THEN [g EXCEPT !.end = end2, !.k = f.k + 1,
                      !.count = f.count + delta1,
                      !.mp = SubSeq(f.mp, 1, idx + 1)
                             \o [j \in 1..delta1 |-> pos + j]
                             \o [j \in 1..(f.count - next) |->
                                     f.mp[next + j] + delta1]]
       ELSE [g EXCEPT !.end = end2, !.k = f.k + 1,
                      !.count = f.count + d,
                      !.mp = SubSeq(f.mp, 1, idx + 1)
                             \o [j \in 1..(f.count - next + d) |->
                                     f.mp[next - d + j] + d]]

\* the part of the loop body of applyLookup that follows recurse
applyLookupAdjust(f, b, ret) ==
    IF ~ret THEN [f EXCEPT !.k = f.k + 1]
    ELSE
    LET newLen == backtrackLen(b) + lookaheadLen(b)
        delta0 == newLen - f.origLen
        idx == f.seq
        pos == f.mp[idx + 1]
        end1 == f.end + delta0
        delta1 == IF end1 < pos THEN delta0 + pos - end1 ELSE delta0
        end2 == IF end1 < pos THEN pos ELSE end1
        next == idx + 1
        d == Max(delta1, next - f.count)
        g == [f EXCEPT !.adj = [delta |-> delta0, idx |-> idx, end |-> f.end,
                                mp |-> f.mp, count |-> f.count]]
    IN IF delta0 = 0 THEN [f EXCEPT !.k = f.k + 1]
       ELSE IF delta1 > 0
       THEN IF delta1 + f.count > maxContextLength
            THEN [g EXCEPT !.end = end2, !.k = Len(f.recs)]
            ELSE [g EXCEPT !.end = end2, !.k = f.k + 1,
                           !.count = f.count + delta1,
                           !.mp = SubSeq(f.mp, 1, idx + 1)
                                  \o [j \in 1..delta1 |-> pos + j]
                                  \o [j \in 1..(f.count - next) |->
                                          f.mp[next + j] + delta1]]
       ELSE [g EXCEPT !.end = end2, !.k = f.k + 1,
                      !.count = f.count + d,
                      !.mp = SubSeq(f.mp, 1, idx + 1)
                             \o [j \in 1..(f.count - next + d) |->
                                     f.mp[next - d + j] + d]]

(***************************************************************************)
(* History variables of the apply machine: the last call of recurse, the    *)
(* first limit that was exhausted with the buffer at that moment, whether a *)
(* lookup was applied after it, and whether applyLookup left its loop with  *)
(* records remaining because maxOps was used up.                            *)
(***************************************************************************)
noHist ==
    [rec |-> [called |-> FALSE, nll |-> 0, ops |-> 0, invoked |-> FALSE],
     trip |-> "none", snap |-> <<>>, late |-> FALSE, broke |-> FALSE]

contents(b) ==
    IF b.haveOutput THEN b.out \o SubSeq(b.info, b.idx + 1, Len(b.info))
    ELSE b.info

tripped(h, kind, b) ==
    IF h.trip = "none" THEN [h EXCEPT !.trip = kind, !.snap = contents(b)] ELSE h

applied(h) == IF h.trip = "none" THEN h ELSE [h EXCEPT !.late = TRUE]

newBuffer(in) ==
    [info |-> in, out |-> <<>>, idx |-> 0, haveOutput |-> FALSE,
     maxOps |-> maxOpsDefault, maxLen |-> maxLenDefault]

newShaper(in) ==
    [pc |-> "idle", input |-> in, table |-> 0, stageI |-> 1, i |-> 0,
     stack |-> <<>>, stalled |-> 0, runs |-> 0, outs |-> <<>>, ops |-> <<>>]

idlePf ==
    [infos |-> <<>>, before |-> <<>>, flags |-> {}, scratch |-> FALSE,
     pc |-> "off", n |-> 0]

idleMb == [pc |-> "off"]

idleRo == [pc |-> "off"]

idleSd == [pc |-> "off"]

idleIt == [pc |-> "off"]

idleCl == [pc |-> "off"]

idleLg == [pc |-> "off"]

idleLp == [pc |-> "off"]

idleAat == [pc |-> "off"]

idleGp == [pc |-> "off"]

idleVr == [pc |-> "off"]

Others == /\ pf = idlePf /\ mb = idleMb /\ ro = idleRo /\ sd = idleSd /\ it = idleIt
          /\ cl = idleCl /\ lg = idleLg
          /\ lp = idleLp /\ aat = idleAat /\ gp = idleGp /\ vr = idleVr

(***************************************************************************)
(* shape(): set the limits of the buffer, then substitute.                  *)
(***************************************************************************)
ShapeBegin(p) ==
    /\ shapers[p].pc = "idle"
    /\ LET n == Len(buffers[p].info)
       IN buffers' = [buffers EXCEPT
                         ![p].maxOps = Max(n * maxOpsFactor, maxOpsMin),
                         ![p].maxLen = Max(n * maxLenFactor, maxLenMin)]
    /\ shapers' = [shapers EXCEPT
                     ![p].pc = IF font.applyMorx THEN "morx" ELSE "substitute"]
    /\ UNCHANGED <<font, plan, hist, pf, mb, ro, sd, it, cl, lg, lp, aat, gp, vr>>

\* one turn of the loop of stateTableDriver.drive; the font's state machine
\* answers with DontAdvance until it has done so font.stall times
AatTransition(p) ==
    /\ shapers[p].pc = "morx"
    /\ LET b == buffers[p]
           dontAdvance == shapers[p].stalled < font.stall
           b1 == IF ~dontAdvance THEN nextGlyph(b)
                 ELSE IF b.maxOps <= 0
                 THEN [nextGlyph(b) EXCEPT !.maxOps = b.maxOps - 2]
                 ELSE [b EXCEPT !.maxOps = b.maxOps - 1]
       IN IF b.idx = Len(b.info)
          THEN /\ shapers' = [shapers EXCEPT ![p].pc = "substitute"]
               /\ UNCHANGED <<buffers, hist>>
          ELSE /\ buffers' = [buffers EXCEPT ![p] = b1]
               /\ hist' = IF b1.maxOps <= 0
                          THEN tripped(hist, "maxOps", b1) ELSE hist
               /\ shapers' = [shapers EXCEPT ![p].stalled =
                                IF dontAdvance THEN @ + 1 ELSE @]
    /\ UNCHANGED <<font, plan, pf, mb, ro, sd, it, cl, lg, lp, aat, gp, vr>>

(***************************************************************************)
(* otMap.apply                                                              *)
(***************************************************************************)
\* an entry of the record of what otMap.apply has done since it was called:
\* the lookup n of m.lookups applied or left out for its digest, or the
\* pause callback of the stage n called
OP(op, n) == [op |-> op, n |-> n]

ApplyBegin(p) ==
    /\ shapers[p].pc \in {"substitute", "position"}
    /\ LET t == IF shapers[p].pc = "substitute" THEN 0 ELSE 1
           c == reset(plan.applyContext, t, p, buffers[p])
       IN /\ plan' = [plan EXCEPT !.applyContext =
                         [c EXCEPT !.recurseFunc = IF t = 0 THEN "GSUB" ELSE "GPOS"]]
          /\ shapers' = [shapers EXCEPT ![p].pc = "stage", ![p].table = t,
                                        ![p].stageI = 1, ![p].i = 0,
                                        ![p].ops = <<>>]
    /\ UNCHANGED <<font, buffers, hist, pf, mb, ro, sd, it, cl, lg, lp, aat, gp, vr>>

afterApply(t) == IF t = 0 THEN "position" ELSE "finish"

ApplyNextLookup(p) ==
    LET sh == shapers[p]
        t == sh.table
        c == plan.applyContext
    IN /\ sh.pc = "stage"
       /\ sh.stageI <= Len(plan.stages[t + 1])
       /\ sh.i < plan.stages[t + 1][sh.stageI].lastLookup
       /\ LET lookup == plan.lookups[t + 1][sh.i + 1]
              l == tableLookups(font, t)[lookup.index + 1]
              b == buffers[c.buffer]
          IN IF mayHaveDigest(collectCoverage(l), c.digest)
             THEN /\ plan' = [plan EXCEPT !.applyContext =
                                [c EXCEPT !.lookupIndex = lookup.index,
                                          !.lookupMask = 1,
                                          !.autoZWJ = TRUE, !.autoZWNJ = TRUE,
                                          !.random = lookup.random,
                                          !.perSyllable = FALSE]]
                  /\ IF Len(b.info) > b.maxLen
                     THEN /\ shapers' = [shapers EXCEPT ![p].pc = afterApply(t)]
                          /\ hist' = tripped(hist, "maxLen", b)
                          /\ UNCHANGED buffers
                     ELSE /\ shapers' = [shapers EXCEPT
                                           ![p].pc = "string",
                                           ![p].ops = Append(@, OP("lookup", sh.i))]
                          /\ buffers' = [buffers EXCEPT ![c.buffer] =
                                           IF t = 0 THEN clearOutput(b)
                                           ELSE [b EXCEPT !.idx = 0]]
                          /\ UNCHANGED hist
             ELSE /\ shapers' = [shapers EXCEPT
                                   ![p].i = sh.i + 1,
                                   ![p].ops = Append(@, OP("skip", sh.i))]
                  /\ UNCHANGED <<plan, buffers, hist>>
       /\ UNCHANGED <<font, pf, mb, ro, sd, it, cl, lg, lp, aat, gp, vr>>

\* the glyph that syllabicInsertDottedCircles puts before a broken cluster;
\* a glyph 2 at the start of the buffer stands for a broken cluster
dottedCircle == 9

\* a pause callback that forgets to say that it has changed the buffer
pauseFuncSilent(kind, b) ==
    IF kind = "insert" /\ b.info # <<>> /\ Head(b.info) = 2
    THEN [b |-> [b EXCEPT !.info = <<dottedCircle>> \o b.info], ret |-> FALSE]
    ELSE [b |-> b, ret |-> FALSE]

\* the pause callbacks of the shapers: [b, ret], the buffer after the call
\* and what the callback returns.  "insert" is a reordering that inserts
\* dotted circles first and returns whether it has inserted one, "reorder"
\* one that only moves glyphs and returns false, "refresh" one that returns
\* true and "keep" one that returns false without a change.
pauseFunc(kind, b) ==
    IF kind = "insert"
    THEN LET ret == b.info # <<>> /\ Head(b.info) = 2
             b1 == IF ret THEN [b EXCEPT !.info = <<dottedCircle>> \o b.info] ELSE b
         IN [b |-> [b1 EXCEPT !.info = [k \in 1..Len(b1.info) |->
                                          b1.info[Len(b1.info) + 1 - k]]],
             ret |-> ret]
    ELSE IF kind = "reorder"
    THEN [b |-> [b EXCEPT !.info = [k \in 1..Len(b.info) |->
                                      b.info[Len(b.info) + 1 - k]]],
          ret |-> FALSE]
    ELSE [b |-> b, ret |-> kind = "refresh"]

\* ApplyPause without waiting for the lookups of the stage
ApplyPauseEarly(p) ==
    LET sh == shapers[p]
        t == sh.table
    IN /\ sh.pc = "stage"
       /\ sh.stageI <= Len(plan.stages[t + 1])
       /\ plan' = IF plan.stages[t + 1][sh.stageI].pause = "refresh"
                  THEN [plan EXCEPT !.applyContext.digest = bufferDigest(buffers[p])]
                  ELSE plan
       /\ shapers' = [shapers EXCEPT
                        ![p].stageI = sh.stageI + 1,
                        ![p].ops = IF plan.stages[t + 1][sh.stageI].pause = "nil" THEN @
                                   ELSE Append(@, OP("pause", sh.stageI - 1))]
       /\ UNCHANGED <<font, buffers, hist, pf, mb, ro, sd, it, cl, lg, lp, aat, gp, vr>>

ApplyPause(p) ==
    LET sh == shapers[p]
        t == sh.table
    IN /\ sh.pc = "stage"
       /\ sh.stageI <= Len(plan.stages[t + 1])
       /\ sh.i >= plan.stages[t + 1][sh.stageI].lastLookup
       /\ LET r == pauseFunc(plan.stages[t + 1][sh.stageI].pause, buffers[p])
          IN /\ buffers' = [buffers EXCEPT ![p] = r.b]
             /\ plan' = IF r.ret
                        THEN [plan EXCEPT !.applyContext.digest = bufferDigest(r.b)]
                        ELSE plan
       /\ shapers' = [shapers EXCEPT
                        ![p].stageI = sh.stageI + 1,
                        ![p].ops = IF plan.stages[t + 1][sh.stageI].pause = "nil" THEN @
                                   ELSE Append(@, OP("pause", sh.stageI - 1))]
       /\ UNCHANGED <<font, hist, pf, mb, ro, sd, it, cl, lg, lp, aat, gp, vr>>

ApplyEnd(p) ==
    LET sh == shapers[p]
    IN /\ sh.pc = "stage"
       /\ sh.stageI > Len(plan.stages[sh.table + 1])
       /\ shapers' = [shapers EXCEPT ![p].pc = afterApply(sh.table)]
       /\ UNCHANGED <<font, plan, buffers, hist, pf, mb, ro, sd, it, cl, lg, lp, aat, gp, vr>>

\* applyString / applyForward: one position of the buffer, or the end of
\* the pass over the buffer
StringStep(p) ==
    LET sh == shapers[p]
        t == sh.table
        c == plan.applyContext
        b == buffers[c.buffer]
        l == tableLookups(font, t)[plan.lookups[t + 1][sh.i + 1].index + 1]
        r == dispatchApply(c, b, l)
    IN /\ sh.pc = "string"
       /\ IF b.idx >= Len(b.info)
          THEN /\ buffers' = [buffers EXCEPT ![c.buffer] =
                                IF b.haveOutput THEN swapBuffers(b) ELSE b]
               /\ shapers' = [shapers EXCEPT ![p].pc = "stage", ![p].i = sh.i + 1]
               /\ UNCHANGED <<plan, hist>>
          ELSE IF r.enter
          THEN /\ shapers' = [shapers EXCEPT
                                ![p].pc = "nested",
                                ![p].stack = <<applyLookupEnter(b, l)>>]
               /\ hist' = applied(hist)
               /\ UNCHANGED <<plan, buffers>>
          ELSE IF r.ret
          THEN /\ plan' = [plan EXCEPT !.applyContext = r.c]
               /\ buffers' = [buffers EXCEPT ![c.buffer] = r.b]
               /\ hist' = applied(hist)
               /\ UNCHANGED shapers
          ELSE /\ buffers' = [buffers EXCEPT ![c.buffer] = nextGlyph(b)]
               /\ UNCHANGED <<plan, shapers, hist>>
       /\ UNCHANGED <<font, pf, mb, ro, sd, it, cl, lg, lp, aat, gp, vr>>

\* replace the top frame of a stack
setTop(stack, f) == [stack EXCEPT ![Len(stack)] = f]

pop(stack) == SubSeq(stack, 1, Len(stack) - 1)

\* applyLookup returns: moveTo(end), and the caller, if it is another
\* applyLookup, goes on behind its call of recurse
applyLookupReturn(c, b, stack, h) ==
    LET f == stack[Len(stack)]
        b1 == moveTo(b, f.end)
        rest == pop(stack)
    IN IF rest = <<>>
       THEN [c |-> c, b |-> b1, stack |-> rest, pc |-> "string", h |-> h]
       ELSE LET g == rest[Len(rest)]
            IN [c |-> [c EXCEPT !.lookupIndex = g.saved,
                                !.nestingLevelLeft = c.nestingLevelLeft + 1],
                b |-> b1,
                stack |-> setTop(rest, applyLookupAdjust(g, b1, TRUE)),
                pc |-> "nested", h |-> h]

\* one lookup record of applyLookup, with the nested lookup it recurses to
applyLookupRecord(c, b, stack, h) ==
    LET f == stack[Len(stack)]
        lk == f.recs[f.k + 1]
        idx == lk.seq
        skip == [c |-> c, b |-> b, pc |-> "nested", h |-> h,
                 stack |-> setTop(stack, [f EXCEPT !.k = f.k + 1])]
        origLen == backtrackLen(b) + lookaheadLen(b)
    IN IF idx >= f.count THEN skip
       ELSE IF f.mp[idx + 1] >= origLen THEN skip
       ELSE
       LET b1 == moveTo(b, f.mp[idx + 1])
           g == recurse(c, b1)
           b2 == [b1 EXCEPT !.maxOps = g.maxOps]
           h1 == [h EXCEPT !.rec = [called |-> TRUE, nll |-> c.nestingLevelLeft,
                                    ops |-> b1.maxOps, invoked |-> g.invoke]]
           h2 == IF c.nestingLevelLeft = 0 THEN tripped(h1, "nesting", b1) ELSE h1
           h3 == IF b2.maxOps <= 0 THEN tripped(h2, "maxOps", b2) ELSE h2
           c1 == [c EXCEPT !.nestingLevelLeft = c.nestingLevelLeft - 1,
                           !.lookupIndex = lk.lookup]
           l == tableLookups(font, c.tableIndex)[lk.lookup + 1]
           r == dispatchApply(c1, b2, l)
           f1 == [f EXCEPT !.origLen = origLen, !.seq = idx, !.saved = c.lookupIndex]
           h4 == IF r.ret THEN applied(h3) ELSE h3
       IN IF b1.maxOps <= 0
          THEN [c |-> c, b |-> b1, pc |-> "nested",
                h |-> [tripped(h, "maxOps", b1) EXCEPT !.broke = TRUE],
                stack |-> setTop(stack, [f EXCEPT !.k = Len(f.recs)])]
          ELSE IF ~g.invoke
          THEN [c |-> c, b |-> b2, pc |-> "nested", h |-> h3,
                stack |-> setTop(stack, [f EXCEPT !.k = f.k + 1])]
          ELSE IF c.recurseFunc = "nil"
          THEN [c |-> c1, b |-> b2, pc |-> "panic", h |-> h3, stack |-> stack]
          ELSE IF r.enter
          THEN IF Len(stack) >= MaxStack
               THEN [c |-> c1, b |-> b2, pc |-> "overflow", h |-> h4,
                     stack |-> stack]
               ELSE [c |-> c1, b |-> b2, pc |-> "nested", h |-> h4,
                     stack |-> Append(setTop(stack, f1), applyLookupEnter(b2, l))]
          ELSE [c |-> [r.c EXCEPT !.lookupIndex = c.lookupIndex,
                                  !.nestingLevelLeft = c.nestingLevelLeft],
                b |-> r.b, pc |-> "nested", h |-> h4,
                stack |-> setTop(stack, applyLookupAdjust(f1, r.b, r.ret))]

RecordStep(p) ==
    LET sh == shapers[p]
        c == plan.applyContext
        b == buffers[c.buffer]
        f == sh.stack[Len(sh.stack)]
        res == IF f.k >= Len(f.recs)
               THEN applyLookupReturn(c, b, sh.stack, hist)
               ELSE applyLookupRecord(c, b, sh.stack, hist)
    IN /\ sh.pc = "nested"
       /\ plan' = [plan EXCEPT !.applyContext = res.c]
       /\ buffers' = [buffers EXCEPT ![c.buffer] = res.b]
       /\ shapers' = [shapers EXCEPT ![p].pc = res.pc, ![p].stack = res.stack]
       /\ hist' = res.h
       /\ UNCHANGED <<font, pf, mb, ro, sd, it, cl, lg, lp, aat, gp, vr>>

\* an end of shape() that hands out an empty buffer after a limit was hit
ShapeEndDiscard(p) ==
    /\ shapers[p].pc = "finish"
    /\ buffers' = [buffers EXCEPT
                     ![p].maxOps = maxOpsDefault,
                     ![p].info = IF hist.trip = "none" THEN @ ELSE <<>>]
    /\ shapers' = [shapers EXCEPT
                     ![p].pc = "done", ![p].runs = shapers[p].runs + 1,
                     ![p].outs = Append(shapers[p].outs,
                                        IF hist.trip = "none"
                                        THEN contents(buffers[p]) ELSE <<>>)]
    /\ UNCHANGED <<font, plan, hist, pf, mb, ro, sd, it, cl, lg, lp, aat, gp, vr>>

\* the end of shape(): the output is the buffer, maxOps is restored
ShapeEnd(p) ==
    /\ shapers[p].pc = "finish"
    /\ buffers' = [buffers EXCEPT ![p].maxOps = maxOpsDefault]
    /\ shapers' = [shapers EXCEPT
                     ![p].pc = "done", ![p].runs = shapers[p].runs + 1,
                     ![p].outs = Append(shapers[p].outs, contents(buffers[p]))]
    /\ UNCHANGED <<font, plan, hist, pf, mb, ro, sd, it, cl, lg, lp, aat, gp, vr>>

\* the caller shapes the same input again, with the same plan
ShapeAgain(p) ==
    /\ shapers[p].pc = "done"
    /\ shapers[p].runs < MaxRuns
    /\ buffers' = [buffers EXCEPT ![p] = newBuffer(shapers[p].input)]
    /\ shapers' = [shapers EXCEPT ![p].pc = "idle", ![p].stalled = 0, ![p].ops = <<>>]
    /\ hist' = noHist
    /\ UNCHANGED <<font, plan, pf, mb, ro, sd, it, cl, lg, lp, aat, gp, vr>>

newPlan(f) ==
    [applyContext |-> zeroContext, lookups |-> f.lookups, stages |-> f.stages]

Init ==
    /\ font \in Fonts
    /\ plan = newPlan(font)
    /\ \E in \in Inputs :
         /\ buffers = [p \in {1} |-> newBuffer(in)]
         /\ shapers = [p \in {1} |-> newShaper(in)]
    /\ hist = noHist
    /\ Others

Next ==
    \E p \in {1} :
       \/ ShapeBegin(p)
       \/ AatTransition(p)
       \/ ApplyBegin(p)
       \/ ApplyNextLookup(p)
       \/ ApplyPause(p)
       \/ ApplyEnd(p)
       \/ StringStep(p)
       \/ RecordStep(p)
       \/ ShapeEnd(p)
       \/ ShapeAgain(p)

Spec == Init /\ [][Next]_vars

(***************************************************************************)
(* Properties of the apply machine (specification Spec).                    *)
(***************************************************************************)
lastOut(p) == shapers[p].outs[Len(shapers[p].outs)]

finished(p) == shapers[p].pc = "done"

\* C1: nested lookups are bounded: nestingLevelLeft is 64 after a reset and
\* stays within 0..64, and a call of recurse that finds nestingLevelLeft = 0
\* returns false without invoking the nested lookup.
C1_NestingBounded ==
    /\ shapers[1].pc = "stage" => plan.applyContext.nestingLevelLeft = maxNestingLevel
    /\ plan.applyContext.nestingLevelLeft \in 0..maxNestingLevel
    /\ hist.rec.called /\ hist.rec.nll = 0 => ~hist.rec.invoked

\* C4: once maxOps, maxLen or the nesting limit is exhausted no lookup is
\* applied any more; what was applied before is kept and shape() still
\* produces its output.
C4_LimitStopsLookups ==
    /\ hist.trip # "none" => ~hist.late
    /\ finished(1) /\ hist.trip = "maxLen" => lastOut(1) = hist.snap

recordIsLive(f, b) ==
    /\ f.k < Len(f.recs)
    /\ f.recs[f.k + 1].seq < f.count
    /\ f.mp[f.recs[f.k + 1].seq + 1] < backtrackLen(b) + lookaheadLen(b)

\* C6: once maxOps <= 0, recurse returns false without invoking the nested
\* lookup, and applyLookup leaves its loop: no nested lookup starts, the
\* glyphs stay as they are and the remaining lookup records are dropped.
C6_OpsExhaustedStopsNesting ==
    /\ [](hist.rec.called /\ hist.rec.ops <= 0 => ~hist.rec.invoked)
    /\ [](buffers[1].maxOps <= 0 =>
             ~recurse(plan.applyContext, buffers[1]).invoke)
    /\ [][buffers[1].maxOps <= 0 /\ shapers[1].pc = "nested" =>
             /\ Len(shapers'[1].stack) <= Len(shapers[1].stack)
             /\ contents(buffers'[1]) = contents(buffers[1])
             /\ hist'.rec = hist.rec
             /\ LET f == shapers[1].stack[Len(shapers[1].stack)]
                IN recordIsLive(f, buffers[1]) =>
                      shapers'[1].stack[Len(shapers[1].stack)].k = Len(f.recs)]_vars

C6_Witness ==
    /\ hist.broke
    /\ buffers[1].maxOps <= 0
    /\ shapers[1].pc = "nested"
    /\ shapers[1].stack[1].k = Len(shapers[1].stack[1].recs)

\* C9: shaping the same input twice with the same plan gives the same
\* output: every piece of per-call state is set again by reset.
C9_ShapeTwiceSame ==
    finished(1) /\ shapers[1].runs = 2 => shapers[1].outs[1] = shapers[1].outs[2]

C9_Witness ==
    /\ finished(1)
    /\ shapers[1].runs = 2
    /\ plan.applyContext.randomState = 1
    /\ shapers[1].outs[2] = <<4, 5, 4>>

\* the stage of the plan, counted from 0, that holds the lookup n of the table
stageOfLookup(t, n) ==
    CHOOSE k \in 0..(Len(plan.stages[t + 1]) - 1) :
        /\ n < plan.stages[t + 1][k + 1].lastLookup
        /\ k > 0 => plan.stages[t + 1][k].lastLookup <= n

isLookupOp(o) == o.op \in {"lookup", "skip"}

\* C15: what one call of otMap.apply does is in the order of the stages of the
\* plan: a lookup comes before the pause callback of its stage and after the
\* callbacks of the stages before, when a callback runs every lookup of its
\* stage and of the stages before has had its turn, and no lookup and no
\* callback has its turn twice.
C15_StageOrder ==
    \A p \in DOMAIN shapers :
        LET ops == shapers[p].ops
            t == shapers[p].table
        IN \A a, b \in 1..Len(ops) :
              /\ (a # b /\ isLookupOp(ops[a]) = isLookupOp(ops[b])) => ops[a].n # ops[b].n
              /\ (a < b /\ ops[a].op = "pause" /\ isLookupOp(ops[b]))
                    => stageOfLookup(t, ops[b].n) > ops[a].n
              /\ (a < b /\ isLookupOp(ops[a]) /\ ops[b].op = "pause")
                    => stageOfLookup(t, ops[a].n) <= ops[b].n
              /\ (a < b /\ isLookupOp(ops[a]) /\ isLookupOp(ops[b])) => ops[a].n < ops[b].n
              /\ ops[b].op = "pause" =>
                    \A n \in 0..(plan.stages[t + 1][ops[b].n + 1].lastLookup - 1) :
                        \E c \in 1..(b - 1) : isLookupOp(ops[c]) /\ ops[c].n = n

\* a lookup was applied, then the pause callback of its stage was called, then
\* a lookup of the next stage was applied
C15_Witness ==
    \E a, b, c \in 1..Len(shapers[1].ops) :
        LET ops == shapers[1].ops
        IN /\ a < b /\ b < c
           /\ ops[a].op = "lookup" /\ ops[b].op = "pause" /\ ops[c].op = "lookup"
           /\ stageOfLookup(0, ops[a].n) = ops[b].n
           /\ stageOfLookup(0, ops[c].n) = ops[b].n + 1

(***************************************************************************)
(* The adjustment of the match positions after a nested lookup              *)
(***************************************************************************)
\* the frames of applyLookup whose last nested lookup changed the length of
\* the buffer
adjustedFrames ==
    {f \in UNION {Range(shapers[p].stack) : p \in DOMAIN shapers} : f.adj.delta # 0}

\* C18 as stated: after a nested lookup changed the length of the buffer by
\* delta, the end of the match is the old end plus delta, every position
\* that follows the recursed position and is kept is the old one plus delta,
\* and there are at most maxContextLength positions
C18_ShiftedByDelta ==
    \A f \in adjustedFrames :
        LET a == f.adj
        IN /\ f.end = a.end + a.delta
           /\ \A j \in (a.idx + 2)..a.count :
                 j + a.delta >= a.idx + 2 =>
                    /\ j + a.delta <= Len(f.mp)
                    /\ f.mp[j + a.delta] = a.mp[j] + a.delta
           /\ f.count <= maxContextLength
           /\ Len(f.mp) = f.count

\* C18, amended: the end of the match moves by delta but not before the
\* recursed position, and delta is reduced to the distance the end moved; if
\* a positive delta would make more than maxContextLength positions, the
\* positions are left as they were and the remaining records are abandoned;
\* otherwise the positions that follow the recursed position are shifted by
\* delta, or by as many positions as follow it when fewer follow, and the
\* positions a positive delta adds continue from the recursed one; there are
\* never more than maxContextLength positions
C18_ShiftedByClampedDelta ==
    \A f \in adjustedFrames :
        LET a == f.adj
            pos == a.mp[a.idx + 1]
            end == Max(a.end + a.delta, pos)
            d1 == end - a.end
            d == IF d1 > 0 THEN d1 ELSE Max(d1, a.idx + 1 - a.count)
        IN /\ f.end = end
           /\ f.count <= maxContextLength
           /\ Len(f.mp) = f.count
           /\ IF d1 > 0 /\ d1 + a.count > maxContextLength
              THEN /\ f.mp = a.mp
                   /\ f.count = a.count
                   /\ f.k = Len(f.recs)
              ELSE /\ f.count = a.count + d
                   /\ \A j \in 1..(a.idx + 1) : f.mp[j] = a.mp[j]
                   /\ \A j \in (a.idx + 2)..a.count :
                         j + d >= a.idx + 2 => f.mp[j + d] = a.mp[j] + d
                   /\ \A j \in 1..d : f.mp[a.idx + 1 + j] = pos + j

\* a nested lookup changed the length of the buffer and a position that
\* follows the recursed one was shifted
C18_Witness ==
    \E f \in adjustedFrames :
        /\ f.adj.idx + 2 <= f.adj.count
        /\ f.adj.idx + 2 <= f.count
        /\ f.mp[f.count] = f.adj.mp[f.adj.count] + f.adj.delta

\* a nested lookup grew the buffer of a match that had maxContextLength
\* positions
C18_WitnessLimit ==
    \E f \in adjustedFrames :
        f.adj.delta > 0 /\ f.adj.count = maxContextLength

(***************************************************************************)
(* Two shapers, each with a buffer of its own, that share one compiled      *)
(* plan.  The steps of the two shape() calls interleave.                    *)
(***************************************************************************)
SharedInputs == {<<1>>, <<2, 1>>}

InitShared ==
    /\ font = fontTiny
    /\ plan = newPlan(font)
    /\ \E in1 \in SharedInputs, in2 \in SharedInputs :
         /\ buffers = [p \in {1, 2} |-> IF p = 1 THEN newBuffer(in1) ELSE newBuffer(in2)]
         /\ shapers = [p \in {1, 2} |-> IF p = 1 THEN newShaper(in1) ELSE newShaper(in2)]
    /\ hist = noHist
    /\ Others

NextShared ==
    \E p \in {1, 2} :
       \/ ShapeBegin(p)
       \/ ApplyBegin(p)
       \/ ApplyNextLookup(p)
       \/ ApplyPause(p)
       \/ ApplyEnd(p)
       \/ StringStep(p)
       \/ ShapeEnd(p)
       \/ ShapeAgain(p)

SpecShared == InitShared /\ [][NextShared]_vars

\* what fontTiny makes of an input when nothing interferes
tinyShaped(in) == [k \in 1..Len(in) |-> IF in[k] = 1 THEN 2 ELSE in[k]]

\* C2: a compiled plan is immutable and shape() calls that share it do not
\* interfere: the plan stays as it was compiled, a shape() call inside
\* otMap.apply works on its own buffer, and its output is the output of an
\* undisturbed call.
C2_SharedPlanSafe ==
    /\ plan = newPlan(font)
    /\ \A p \in DOMAIN shapers :
         /\ shapers[p].pc \in {"stage", "string"} => plan.applyContext.buffer = p
         /\ finished(p) => lastOut(p) = tinyShaped(shapers[p].input)

(***************************************************************************)
(* Glyph flags.  A glyph is [cluster, mask]; mask is the set of the flag    *)
(* bits of GlyphInfo.Mask.  The buffer has its flags (a set) and the        *)
(* scratch flag bsfHasGlyphFlags.                                           *)
(***************************************************************************)
GlyphUnsafeToBreak == 1

GlyphUnsafeToConcat == 2

GlyphSafeToInsertTatweel == 4

glyphFlagDefined == {GlyphUnsafeToBreak, GlyphUnsafeToConcat, GlyphSafeToInsertTatweel}

\* most glyphs of a buffer of the flag machine
MaxGlyphs == 3

\* most flag and cluster operations before propagateFlags
MaxFlagOps == 3

BufferFlags == {"ProduceUnsafeToConcat", "ProduceSafeToInsertTatweel"}

setCluster(info, cluster, mask) ==
    [info EXCEPT !.cluster = cluster,
                 !.mask = IF info.cluster # cluster
                          THEN (info.mask \ glyphFlagDefined) \cup (mask \cap glyphFlagDefined)
                          ELSE info.mask]

RECURSIVE minCluster(_, _, _)
minCluster(infos, a, b) ==
    IF a + 1 >= b THEN infos[a + 1].cluster
    ELSE Min(infos[a + 1].cluster, minCluster(infos, a + 1, b))

\* the glyphs of [a, b), 0-based, are positions a+1 .. b of the sequence
RECURSIVE extendEnd(_, _)
extendEnd(infos, b) ==
    IF b < Len(infos) /\ infos[b].cluster = infos[b + 1].cluster
    THEN extendEnd(infos, b + 1) ELSE b

RECURSIVE extendStart(_, _)
extendStart(infos, a) ==
    IF a > 0 /\ infos[a].cluster = infos[a + 1].cluster
    THEN extendStart(infos, a - 1) ELSE a

mergeClusters(infos, a, b) ==
    IF b - a < 2 THEN infos
    ELSE LET cluster == minCluster(infos, a, b)
             e == extendEnd(infos, b)
             st == extendStart(infos, a)
         IN [i \in 1..Len(infos) |->
               IF st < i /\ i <= e THEN setCluster(infos[i], cluster, {})
               ELSE infos[i]]

\* setGlyphFlags: the flags go to every glyph of [a, b), or with interior to
\* those that are not in the first cluster of the range
setGlyphFlags(infos, mask, a, b, interior) ==
    IF interior /\ b - a < 2 THEN infos
    ELSE LET cluster == minCluster(infos, a, b)
         IN [i \in 1..Len(infos) |->
               IF a < i /\ i <= b /\ (~interior \/ infos[i].cluster # cluster)
               THEN [infos[i] EXCEPT !.mask = @ \cup mask]
               ELSE infos[i]]

\* the cluster containing position i: the run of equal cluster values
sameRun(infos, i, j) ==
    \A k \in Min(i, j)..Max(i, j) : infos[k].cluster = infos[i].cluster

\* a propagateFlags whose tatweel rule adds UnsafeToBreak only
propagateFlagsBreakOnly(infos, flags, scratch) ==
    IF ~scratch THEN infos
    ELSE [i \in 1..Len(infos) |->
           LET m0 == UNION {infos[j].mask \cap glyphFlagDefined :
                              j \in {j \in 1..Len(infos) : sameRun(infos, i, j)}}
               m1 == IF "ProduceSafeToInsertTatweel" \in flags
                        /\ GlyphUnsafeToBreak \in m0
                     THEN m0 \ {GlyphSafeToInsertTatweel} ELSE m0
               m2 == IF "ProduceSafeToInsertTatweel" \in flags
                        /\ GlyphSafeToInsertTatweel \in m1
                     THEN m1 \cup {GlyphUnsafeToBreak} ELSE m1
               m3 == IF "ProduceUnsafeToConcat" \notin flags
                     THEN m2 \ {GlyphUnsafeToConcat} ELSE m2
           IN [infos[i] EXCEPT !.mask = m3]]

\* a propagateFlags that joins the flags of no more than one glyph
propagateFlagsAlone(infos, flags, scratch) ==
    IF ~scratch THEN infos
    ELSE [i \in 1..Len(infos) |->
           LET m0 == infos[i].mask \cap glyphFlagDefined
               m1 == IF "ProduceSafeToInsertTatweel" \in flags
                        /\ GlyphUnsafeToBreak \in m0
                     THEN m0 \ {GlyphSafeToInsertTatweel} ELSE m0
               m2 == IF "ProduceSafeToInsertTatweel" \in flags
                        /\ GlyphSafeToInsertTatweel \in m1
                     THEN m1 \cup {GlyphUnsafeToBreak, GlyphUnsafeToConcat} ELSE m1
               m3 == IF "ProduceUnsafeToConcat" \notin flags
                     THEN m2 \ {GlyphUnsafeToConcat} ELSE m2
           IN [infos[i] EXCEPT !.mask = m3]]

propagateFlags(infos, flags, scratch) ==
    IF ~scratch THEN infos
    ELSE [i \in 1..Len(infos) |->
           LET m0 == UNION {infos[j].mask \cap glyphFlagDefined :
                              j \in {j \in 1..Len(infos) : sameRun(infos, i, j)}}
               m1 == IF "ProduceSafeToInsertTatweel" \in flags
                        /\ GlyphUnsafeToBreak \in m0
                     THEN m0 \ {GlyphSafeToInsertTatweel} ELSE m0
               m2 == IF "ProduceSafeToInsertTatweel" \in flags
                        /\ GlyphSafeToInsertTatweel \in m1
                     THEN m1 \cup {GlyphUnsafeToBreak, GlyphUnsafeToConcat} ELSE m1
               m3 == IF "ProduceUnsafeToConcat" \notin flags
                     THEN m2 \ {GlyphUnsafeToConcat} ELSE m2
           IN [infos[i] EXCEPT !.mask = m3]]

unsafeToBreak(b, a, e) ==
    IF e - a < 2 THEN b
    ELSE [b EXCEPT !.scratch = TRUE,
                   !.infos = setGlyphFlags(b.infos,
                                {GlyphUnsafeToBreak, GlyphUnsafeToConcat}, a, e, TRUE)]

unsafeToConcat(b, a, e) ==
    IF "ProduceUnsafeToConcat" \notin b.flags THEN b
    ELSE [b EXCEPT !.scratch = TRUE,
                   !.infos = setGlyphFlags(b.infos, {GlyphUnsafeToConcat}, a, e, FALSE)]

safeToInsertTatweel(b, a, e) ==
    IF "ProduceSafeToInsertTatweel" \notin b.flags THEN unsafeToBreak(b, a, e)
    ELSE IF e - a < 2 THEN b
    ELSE [b EXCEPT !.scratch = TRUE,
                   !.infos = setGlyphFlags(b.infos, {GlyphSafeToInsertTatweel}, a, e, TRUE)]

Ranges(n) == {r \in (0..n) \X (0..n) : r[1] < r[2]}

Monotone(cs) == \A i \in 1..(Len(cs) - 1) : cs[i] <= cs[i + 1]

FlagInputs ==
    UNION {{cs \in [1..n -> 0..(n - 1)] : Monotone(cs)} : n \in 2..MaxGlyphs}

InitFlags ==
    /\ font = fontTiny
    /\ plan = newPlan(font)
    /\ buffers = <<>>
    /\ shapers = <<>>
    /\ hist = noHist
    /\ mb = idleMb
    /\ ro = idleRo
    /\ sd = idleSd
    /\ it = idleIt
    /\ cl = idleCl
    /\ lg = idleLg
    /\ lp = idleLp
    /\ aat = idleAat
    /\ gp = idleGp
    /\ vr = idleVr
    /\ \E cs \in FlagInputs, fl \in SUBSET BufferFlags :
         pf = [infos |-> [i \in 1..Len(cs) |-> [cluster |-> cs[i], mask |-> {}]],
               before |-> <<>>, flags |-> fl, scratch |-> FALSE,
               pc |-> "shaping", n |-> 0]

flagStep(b) ==
    /\ pf.pc = "shaping"
    /\ pf.n < MaxFlagOps
    /\ pf' = [b EXCEPT !.n = pf.n + 1]
    /\ UNCHANGED <<font, plan, buffers, shapers, hist, mb, ro, sd, it, cl, lg, lp, aat, gp, vr>>

UnsafeToBreak == \E r \in Ranges(Len(pf.infos)) : flagStep(unsafeToBreak(pf, r[1], r[2]))

UnsafeToConcat == \E r \in Ranges(Len(pf.infos)) : flagStep(unsafeToConcat(pf, r[1], r[2]))

SafeToInsertTatweel ==
    \E r \in Ranges(Len(pf.infos)) : flagStep(safeToInsertTatweel(pf, r[1], r[2]))

MergeClusters ==
    \E r \in Ranges(Len(pf.infos)) :
       flagStep([pf EXCEPT !.infos = mergeClusters(pf.infos, r[1], r[2])])

\* the end of shape(): propagateFlags, then the glyphs are the output
PropagateFlags ==
    /\ pf.pc = "shaping"
    /\ pf' = [pf EXCEPT !.pc = "done", !.before = pf.infos,
                        !.infos = propagateFlags(pf.infos, pf.flags, pf.scratch)]
    /\ UNCHANGED <<font, plan, buffers, shapers, hist, mb, ro, sd, it, cl, lg, lp, aat, gp, vr>>

NextFlags ==
    \/ MergeClusters
    \/ UnsafeToBreak
    \/ UnsafeToConcat
    \/ SafeToInsertTatweel
    \/ PropagateFlags

SpecFlags == InitFlags /\ [][NextFlags]_vars

hasFlag(i, f) == f \in pf.infos[i].mask

otMapMaxBits == 8

globalBitShift == 31

globalBitMask == {globalBitShift}

NoFeatureIndex == 65535

\* most calls of addFeatureExt before compile
MaxFeatures == 2

\* most calls of addGSUBPause before compile
MaxPauses == 1

Tags == 1..6

\* the lookup indices of the font
LookupIndices == 0..5

\* the GSUB and GPOS feature lists of the font: the lookups of each feature
\* that the script and language of the plan have
layoutFeatures ==
    << [t \in Tags |-> CASE t = 1 -> <<3, 1>>
                         [] t = 2 -> <<1, 2>>
                         [] t = 3 -> <<2, 0>>
                         [] t = 4 -> <<5, 2>>
                         [] OTHER -> <<>>],
       [t \in Tags |-> IF t = 1 THEN <<0>> ELSE <<>>] >>

\* the feature index of a tag is its tag where the table has the feature
findFeatureForLang(tableIndex, tag) ==
    IF layoutFeatures[tableIndex + 1][tag] # <<>> THEN tag ELSE NoFeatureIndex

\* tag 5 is a GSUB feature of another script of the font, with lookup 4
findFeature(tableIndex, tag) ==
    IF tableIndex = 0 /\ tag = 5 THEN tag ELSE findFeatureForLang(tableIndex, tag)

getFeatureLookupsWithVar(tableIndex, index) ==
    IF index = NoFeatureIndex THEN <<>>
    ELSE IF tableIndex = 0 /\ index = 5 THEN <<4>>
    ELSE layoutFeatures[tableIndex + 1][index]

RECURSIVE bitStorage(_)
bitStorage(v) == IF v = 0 THEN 0 ELSE 1 + bitStorage(v \div 2)

\* the bits of a uint32
bitsOf(v) == {k \in 0..30 : (v \div (2 ^ k)) % 2 = 1}

\* (v << shift) as a uint32
shiftLeft(v, shift) == {k + shift : k \in bitsOf(v)} \cap (0..31)

\* (1 << hi) - (1 << lo) as a uint32, lo <= hi
maskRange(lo, hi) == {k \in 0..31 : lo <= k /\ k < hi}

addFeatureExt(b, tag, flags, value) ==
    [b EXCEPT !.featureInfos = Append(@,
        [tag |-> tag, maxValue |-> value, flags |-> flags,
         defaultValue |-> IF "GLOBAL" \in flags THEN value ELSE 0,
         stage |-> b.currentStage])]

addPause(b, tableIndex, fn) ==
    [b EXCEPT !.stages[tableIndex + 1] =
                  Append(@, [index |-> b.currentStage[tableIndex + 1], pauseFunc |-> fn]),
              !.currentStage[tableIndex + 1] = @ + 1]

\* sort.SliceStable by tag
RECURSIVE sortByTag(_, _)
sortByTag(infos, t) ==
    IF t \notin Tags THEN <<>>
    ELSE SelectSeq(infos, LAMBDA f : f.tag = t) \o sortByTag(infos, t + 1)

\* mergeInto with the flags of j left alone when feat is global
mergeIntoKeepFlags(j, feat) ==
    LET j1 == IF "GLOBAL" \in feat.flags
              THEN [j EXCEPT !.maxValue = feat.maxValue,
                             !.defaultValue = feat.defaultValue]
              ELSE [j EXCEPT !.flags = @ \ {"GLOBAL"},
                             !.maxValue = Max(@, feat.maxValue)]
    IN [j1 EXCEPT !.flags = @ \cup (feat.flags \cap {"HasFallback"}),
                  !.stage = << Min(j.stage[1], feat.stage[1]),
                               Min(j.stage[2], feat.stage[2]) >>]

\* mergeInto with the larger maxValue taken when feat is global, too
mergeIntoAlwaysMax(j, feat) ==
    LET j1 == IF "GLOBAL" \in feat.flags
              THEN [j EXCEPT !.flags = @ \cup {"GLOBAL"},
                             !.maxValue = Max(@, feat.maxValue),
                             !.defaultValue = feat.defaultValue]
              ELSE [j EXCEPT !.flags = @ \ {"GLOBAL"},
                             !.maxValue = Max(@, feat.maxValue)]
    IN [j1 EXCEPT !.flags = @ \cup (feat.flags \cap {"HasFallback"}),
                  !.stage = << Min(j.stage[1], feat.stage[1]),
                               Min(j.stage[2], feat.stage[2]) >>]

\* mergeInto without the fallback flag of feat
mergeIntoNoFallback(j, feat) ==
    LET j1 == IF "GLOBAL" \in feat.flags
              THEN [j EXCEPT !.flags = @ \cup {"GLOBAL"},
                             !.maxValue = feat.maxValue,
                             !.defaultValue = feat.defaultValue]
              ELSE [j EXCEPT !.flags = @ \ {"GLOBAL"},
                             !.maxValue = Max(@, feat.maxValue)]
    IN [j1 EXCEPT !.stage = << Min(j.stage[1], feat.stage[1]),
                               Min(j.stage[2], feat.stage[2]) >>]

\* one duplicate, feat, merged into the entry j of the same tag
mergeInto(j, feat) ==
    LET j1 == IF "GLOBAL" \in feat.flags
              THEN [j EXCEPT !.flags = @ \cup {"GLOBAL"},
                             !.maxValue = feat.maxValue,
                             !.defaultValue = feat.defaultValue]
              ELSE [j EXCEPT !.flags = @ \ {"GLOBAL"},
                             !.maxValue = Max(@, feat.maxValue)]
    IN [j1 EXCEPT !.flags = @ \cup (feat.flags \cap {"HasFallback"}),
                  !.stage = << Min(j.stage[1], feat.stage[1]),
                               Min(j.stage[2], feat.stage[2]) >>]

RECURSIVE mergeDuplicates(_, _)
mergeDuplicates(acc, rest) ==
    IF rest = <<>> THEN acc
    ELSE LET feat == Head(rest)
         IN IF acc = <<>> \/ acc[Len(acc)].tag # feat.tag
            THEN mergeDuplicates(Append(acc, feat), Tail(rest))
            ELSE mergeDuplicates(
                    [acc EXCEPT ![Len(acc)] = mergeInto(acc[Len(acc)], feat)],
                    Tail(rest))

usesGlobalBit(info) == "GLOBAL" \in info.flags /\ info.maxValue = 1

bitsNeeded(info) ==
    IF usesGlobalBit(info) THEN 0
    ELSE Min(otMapMaxBits, bitStorage(info.maxValue))

\* the index of the feature in GSUB and GPOS, by script and language and
\* then, for a feature that asks for it, in the whole table
featureIndex(info) ==
    LET index == << findFeatureForLang(0, info.tag), findFeatureForLang(1, info.tag) >>
    IN IF index = <<NoFeatureIndex, NoFeatureIndex>> /\ "GlobalSearch" \in info.flags
       THEN << findFeature(0, info.tag), findFeature(1, info.tag) >>
       ELSE index

found(info) == featureIndex(info) # <<NoFeatureIndex, NoFeatureIndex>>

\* a feature that gets no map: disabled, no bits left, or not in the font
skipped(nextBit, info) ==
    \/ info.maxValue = 0
    \/ nextBit + bitsNeeded(info) >= globalBitShift
    \/ ~found(info) /\ "HasFallback" \notin info.flags

newFeatureMap(nextBit, info) ==
    LET shift == IF usesGlobalBit(info) THEN globalBitShift ELSE nextBit
        mask == IF usesGlobalBit(info) THEN globalBitMask
                ELSE maskRange(nextBit, nextBit + bitsNeeded(info))
    IN [tag |-> info.tag, index |-> featureIndex(info), stage |-> info.stage,
        shift |-> shift, mask |-> mask, mask1 |-> {shift} \cap mask,
        needsFallback |-> ~found(info),
        autoZWNJ |-> "ManualZWNJ" \notin info.flags,
        autoZWJ |-> "ManualZWJ" \notin info.flags,
        random |-> "Random" \in info.flags,
        perSyllable |-> "PerSyllable" \in info.flags]

\* allocate without the test for the bits that are left
allocateUnguarded(st, info) ==
    LET map == newFeatureMap(st.nextBit, info)
    IN IF info.maxValue = 0 \/ (~found(info) /\ "HasFallback" \notin info.flags)
       THEN st
       ELSE [nextBit |-> IF usesGlobalBit(info) THEN st.nextBit
                         ELSE st.nextBit + bitsNeeded(info),
             globalMask |-> IF usesGlobalBit(info) THEN st.globalMask
                            ELSE st.globalMask
                                 \cup (shiftLeft(info.defaultValue, map.shift) \cap map.mask),
             features |-> Append(st.features, map)]

\* one turn of the allocation loop: st is [nextBit, globalMask, features]
allocate(st, info) ==
    LET map == newFeatureMap(st.nextBit, info)
    IN IF skipped(st.nextBit, info) THEN st
       ELSE [nextBit |-> IF usesGlobalBit(info) THEN st.nextBit
                         ELSE st.nextBit + bitsNeeded(info),
             globalMask |-> IF usesGlobalBit(info) THEN st.globalMask
                            ELSE st.globalMask
                                 \cup (shiftLeft(info.defaultValue, map.shift) \cap map.mask),
             features |-> Append(st.features, map)]

RECURSIVE allocateBits(_, _)
allocateBits(st, infos) ==
    IF infos = <<>> THEN st
    ELSE allocateBits(allocate(st, Head(infos)), Tail(infos))

addLookups(tableIndex, feat) ==
    LET lookupIndices == getFeatureLookupsWithVar(tableIndex, feat.index[tableIndex + 1])
    IN [k \in 1..Len(lookupIndices) |->
           [mask |-> feat.mask, index |-> lookupIndices[k],
            autoZWNJ |-> feat.autoZWNJ, autoZWJ |-> feat.autoZWJ,
            random |-> feat.random, perSyllable |-> feat.perSyllable,
            featureTag |-> feat.tag]]

\* the lookups of the features of one stage, in the order of m.features
RECURSIVE stageLookups(_, _, _)
stageLookups(features, tableIndex, stage) ==
    IF features = <<>> THEN <<>>
    ELSE (IF Head(features).stage[tableIndex + 1] = stage
          THEN addLookups(tableIndex, Head(features)) ELSE <<>>)
         \o stageLookups(Tail(features), tableIndex, stage)

\* sort.Slice by index; views this short are sorted by insertion, which
\* keeps entries of one index in their order
RECURSIVE sortByIndex(_, _)
sortByIndex(view, k) ==
    IF k \notin LookupIndices THEN <<>>
    ELSE SelectSeq(view, LAMBDA l : l.index = k) \o sortByIndex(view, k + 1)

\* mergeLookups with the later entries of an index dropped as they are
RECURSIVE mergeLookupsFirstOnly(_, _)
mergeLookupsFirstOnly(acc, rest) ==
    IF rest = <<>> THEN acc
    ELSE LET l == Head(rest)
         IN IF acc = <<>> \/ acc[Len(acc)].index # l.index
            THEN mergeLookupsFirstOnly(Append(acc, l), Tail(rest))
            ELSE mergeLookupsFirstOnly(acc, Tail(rest))

RECURSIVE mergeLookups(_, _)
mergeLookups(acc, rest) ==
    IF rest = <<>> THEN acc
    ELSE LET l == Head(rest)
             j == Len(acc)
         IN IF acc = <<>> \/ acc[j].index # l.index
            THEN mergeLookups(Append(acc, l), Tail(rest))
            ELSE mergeLookups(
                    [acc EXCEPT ![j].mask = @ \cup l.mask,
                                ![j].autoZWNJ = @ /\ l.autoZWNJ,
                                ![j].autoZWJ = @ /\ l.autoZWJ],
                    Tail(rest))

\* the stages from stage on of one table: st is [lookups, stages, stageIndex]
RECURSIVE collectLookups(_, _, _, _, _)
collectLookups(st, features, b, tableIndex, stage) ==
    IF stage >= b.currentStage[tableIndex + 1] THEN st
    ELSE LET ls == st.lookups
                   \o mergeLookups(<<>>,
                          sortByIndex(stageLookups(features, tableIndex, stage), 0))
             bs == b.stages[tableIndex + 1]
             pause == st.stageIndex < Len(bs) /\ bs[st.stageIndex + 1].index = stage
         IN collectLookups(
                [lookups |-> ls,
                 stages |-> IF pause
                            THEN Append(st.stages,
                                        [lastLookup |-> Len(ls),
                                         pauseFunc |-> bs[st.stageIndex + 1].pauseFunc])
                            ELSE st.stages,
                 stageIndex |-> IF pause THEN st.stageIndex + 1 ELSE st.stageIndex],
                features, b, tableIndex, stage + 1)

emptyMap == [globalMask |-> {}, features |-> <<>>,
             lookups |-> << <<>>, <<>> >>, stages |-> << <<>>, <<>> >>]

\* the map compile fills and the builder it leaves
compile(b) ==
    LET infos == mergeDuplicates(<<>>, sortByTag(b.featureInfos, 1))
        bits == allocateBits([nextBit |-> Cardinality(glyphFlagDefined) + 1,
                              globalMask |-> globalBitMask,
                              features |-> <<>>], infos)
        b2 == addPause(addPause([b EXCEPT !.featureInfos = <<>>], 0, "nil"), 1, "nil")
        tab(t) == collectLookups([lookups |-> <<>>, stages |-> <<>>, stageIndex |-> 0],
                                 bits.features, b2, t, 0)
    IN [builder |-> b2,
        infos |-> infos,
        m |-> [globalMask |-> bits.globalMask, features |-> bits.features,
               lookups |-> << tab(0).lookups, tab(1).lookups >>,
               stages |-> << tab(0).stages, tab(1).stages >>]]

\* the features a shaper has added before the caller's own: none, or three
\* features of eight bits each
plannedFeatures ==
    { <<>>,
      [k \in 1..3 |-> [tag |-> k, maxValue |-> 255, flags |-> {},
                      defaultValue |-> 0, stage |-> <<0, 0>>]] }

\* the calls of addFeatureExt: [tag, flags, value]
FeatureCalls ==
    [tag : {3, 4}, flags : {{}, {"GLOBAL"}}, value : {1, 255}]
    \cup { [tag |-> 3, flags |-> {}, value |-> 0],
           [tag |-> 5, flags |-> {"GlobalSearch"}, value |-> 1],
           [tag |-> 6, flags |-> {"HasFallback", "ManualZWJ"}, value |-> 1],
           [tag |-> 6, flags |-> {}, value |-> 1],
           [tag |-> 4, flags |-> {"ManualZWNJ", "ManualZWJ", "Random", "PerSyllable"},
            value |-> 1] }

InitMap ==
    /\ font = fontTiny
    /\ plan = newPlan(font)
    /\ buffers = <<>>
    /\ shapers = <<>>
    /\ hist = noHist
    /\ pf = idlePf
    /\ ro = idleRo
    /\ sd = idleSd
    /\ it = idleIt
    /\ cl = idleCl
    /\ lg = idleLg
    /\ lp = idleLp
    /\ aat = idleAat
    /\ gp = idleGp
    /\ vr = idleVr
    /\ \E infos \in plannedFeatures :
          mb = [pc |-> "building", featureInfos |-> infos,
                stages |-> << <<>>, <<>> >>, currentStage |-> <<0, 0>>,
                added |-> infos, calls |-> 0, pauses |-> 0, merged |-> <<>>, m |-> emptyMap]

AddFeatureExt ==
    /\ mb.pc = "building"
    /\ mb.calls < MaxFeatures
    /\ \E call \in FeatureCalls :
          LET b == addFeatureExt(mb, call.tag, call.flags, call.value)
          IN mb' = [b EXCEPT !.added = b.featureInfos, !.calls = @ + 1]
    /\ UNCHANGED <<font, plan, buffers, shapers, hist, pf, ro, sd, it, cl, lg, lp, aat, gp, vr>>

AddGSUBPause ==
    /\ mb.pc = "building"
    /\ mb.pauses < MaxPauses
    /\ mb' = [addPause(mb, 0, "fn") EXCEPT !.pauses = @ + 1]
    /\ UNCHANGED <<font, plan, buffers, shapers, hist, pf, ro, sd, it, cl, lg, lp, aat, gp, vr>>

Compile ==
    /\ mb.pc = "building"
    /\ LET r == compile(mb)
       IN mb' = [r.builder EXCEPT !.pc = "compiled", !.merged = r.infos, !.m = r.m]
    /\ UNCHANGED <<font, plan, buffers, shapers, hist, pf, ro, sd, it, cl, lg, lp, aat, gp, vr>>

NextMap == AddFeatureExt \/ AddGSUBPause \/ Compile

SpecMap == InitMap /\ [][NextMap]_vars

ownBits(feat) == feat.shift # globalBitShift

glyphFlagBits == UNION {bitsOf(f) : f \in glyphFlagDefined}

\* C10: the masks of two distinct features of a compiled map that have bits of
\* their own are disjoint, and the mask of each is disjoint from the global
\* bit, bit 31, and from the bits of the glyph flags.
C10_MasksDisjoint ==
    mb.pc = "compiled" =>
        \A i, j \in 1..Len(mb.m.features) :
            LET fi == mb.m.features[i]
                fj == mb.m.features[j]
            IN ownBits(fi) =>
                  /\ fi.mask \cap globalBitMask = {}
                  /\ fi.mask \cap glyphFlagBits = {}
                  /\ (i # j /\ ownBits(fj)) => fi.mask \cap fj.mask = {}

\* four features with bits of their own up to bit 29, and a fifth that was
\* left out because fewer than its bits were left below the global bit
C10_Witness ==
    /\ mb.pc = "compiled"
    /\ Len(SelectSeq(mb.m.features, LAMBDA f : ownBits(f) /\ f.mask # {})) = 4
    /\ \E k \in 1..Len(mb.m.features) : 28 \in mb.m.features[k].mask
    /\ \E k \in 1..Len(mb.merged) :
          /\ mb.merged[k].maxValue # 0
          /\ found(mb.merged[k])
          /\ \A i \in 1..Len(mb.m.features) : mb.m.features[i].tag # mb.merged[k].tag

getStageLookups(m, tableIndex, stage) ==
    LET stages == m.stages[tableIndex + 1]
        lookups == m.lookups[tableIndex + 1]
        start == IF stage # 0 THEN stages[stage].lastLookup ELSE 0
        end == IF stage < Len(stages) THEN stages[stage + 1].lastLookup ELSE Len(lookups)
    IN IF stage > Len(stages) THEN <<>> ELSE SubSeq(lookups, start + 1, end)

\* the features of the tag t in the order they were added
duplicates(t) == SelectSeq(mb.added, LAMBDA f : f.tag = t)

\* the tags that compile has merged duplicates of
mergedTags == {t \in Tags : Len(duplicates(t)) >= 2}

\* the entry of the tag t after the merge
mergedOf(t) == CHOOSE f \in Range(mb.merged) : f.tag = t

\* the last global feature among the duplicates of t, the first feature if
\* none is global
lastGlobal(t) ==
    LET d == duplicates(t)
        g == {k \in 1..Len(d) : "GLOBAL" \in d[k].flags}
    IN IF g = {} THEN 1 ELSE CHOOSE k \in g : \A l \in g : l <= k

\* C11 as stated: if one of the duplicates of a tag is not global, the merged
\* entry is not global, in whatever order the duplicates were added.
C11_AnyNonGlobalClears ==
    mb.pc = "compiled" =>
        \A t \in mergedTags :
            (\E k \in 1..Len(duplicates(t)) : "GLOBAL" \notin duplicates(t)[k].flags)
                => "GLOBAL" \notin mergedOf(t).flags

\* C11 amended: the merged entry of a tag is global exactly when the
\* duplicate that was added last is global.
C11_GlobalOfLast ==
    mb.pc = "compiled" =>
        \A t \in mergedTags :
            LET d == duplicates(t)
            IN "GLOBAL" \in mergedOf(t).flags <=> "GLOBAL" \in d[Len(d)].flags

\* a tag with a duplicate that is not global and a global one added after it
C11_Witness ==
    /\ mb.pc = "compiled"
    /\ \E t \in mergedTags :
          LET d == duplicates(t)
          IN /\ "GLOBAL" \notin d[1].flags
             /\ "GLOBAL" \in d[Len(d)].flags
             /\ "GLOBAL" \in mergedOf(t).flags

\* C12 as stated: the maxValue of a merged entry is the largest maxValue of
\* its duplicates.
C12_MaxOfAll ==
    mb.pc = "compiled" =>
        \A t \in mergedTags :
            LET d == duplicates(t)
            IN /\ \A k \in 1..Len(d) : d[k].maxValue <= mergedOf(t).maxValue
               /\ \E k \in 1..Len(d) : d[k].maxValue = mergedOf(t).maxValue

\* C12 amended: the maxValue of a merged entry is the largest maxValue among
\* the last global duplicate and the duplicates added after it, and the
\* largest of all the duplicates if none of them is global.
C12_MaxSinceLastGlobal ==
    mb.pc = "compiled" =>
        \A t \in mergedTags :
            LET d == duplicates(t)
                from == lastGlobal(t)
            IN /\ \A k \in from..Len(d) : d[k].maxValue <= mergedOf(t).maxValue
               /\ \E k \in from..Len(d) : d[k].maxValue = mergedOf(t).maxValue

\* a tag whose largest maxValue was added before its last global duplicate
C12_Witness ==
    /\ mb.pc = "compiled"
    /\ \E t \in mergedTags :
          LET d == duplicates(t)
          IN /\ lastGlobal(t) > 1
             /\ \E k \in 1..(lastGlobal(t) - 1) : d[k].maxValue > mergedOf(t).maxValue

\* C13 as stated: GLOBAL aside, the flags of a merged entry are the flags of
\* all its duplicates taken together.
C13_FlagsOfAll ==
    mb.pc = "compiled" =>
        \A t \in mergedTags :
            mergedOf(t).flags \ {"GLOBAL"}
                = UNION {f.flags : f \in Range(duplicates(t))} \ {"GLOBAL"}

\* C13 amended: GLOBAL aside, the flags of a merged entry are the flags of
\* the duplicate that was added first, and HasFallback if any of the
\* duplicates has it.
C13_FlagsOfFirst ==
    mb.pc = "compiled" =>
        \A t \in mergedTags :
            mergedOf(t).flags \ {"GLOBAL"}
                = (duplicates(t)[1].flags
                   \cup (UNION {f.flags : f \in Range(duplicates(t))} \cap {"HasFallback"}))
                  \ {"GLOBAL"}

\* a tag whose first duplicate has no flags and whose later duplicate brings
\* HasFallback, which is merged in, and another flag, which is not
C13_Witness ==
    /\ mb.pc = "compiled"
    /\ \E t \in mergedTags :
          /\ duplicates(t)[1].flags = {}
          /\ mergedOf(t).flags = {"HasFallback"}
          /\ \E k \in 2..Len(duplicates(t)) :
                duplicates(t)[k].flags \ {"HasFallback", "GLOBAL"} # {}

\* the features of the map that bring the lookup index into the stage
contributors(tableIndex, stage, index) ==
    {f \in Range(mb.m.features) :
        /\ f.stage[tableIndex + 1] = stage
        /\ index \in Range(getFeatureLookupsWithVar(tableIndex, f.index[tableIndex + 1]))}

\* C14: in a compiled map the lookups of each stage of each table are sorted
\* by lookup index, no index is there twice, each lookup that features of the
\* stage bring is there, and an entry has the masks of the features that bring
\* it ORed and their autoZWJ and their autoZWNJ ANDed.
C14_StageLookupsSortedMerged ==
    mb.pc = "compiled" =>
        \A t \in {0, 1} : \A stage \in 0..Len(mb.m.stages[t + 1]) :
            LET ls == getStageLookups(mb.m, t, stage)
            IN /\ \A k \in 1..(Len(ls) - 1) : ls[k].index < ls[k + 1].index
               /\ {l.index : l \in Range(ls)}
                     = {i \in LookupIndices : contributors(t, stage, i) # {}}
               /\ \A k \in 1..Len(ls) :
                     LET fs == contributors(t, stage, ls[k].index)
                     IN /\ ls[k].mask = UNION {f.mask : f \in fs}
                        /\ ls[k].autoZWJ = (\A f \in fs : f.autoZWJ)
                        /\ ls[k].autoZWNJ = (\A f \in fs : f.autoZWNJ)

\* a stage with a lookup of two features, one with and one without automatic
\* joiners, and with lookups that were added in descending order
C14_Witness ==
    /\ mb.pc = "compiled"
    /\ \E stage \in 0..Len(mb.m.stages[1]) : \E i \in LookupIndices :
          /\ \E f, g \in contributors(0, stage, i) :
                /\ f.autoZWJ /\ ~g.autoZWJ /\ f.autoZWNJ /\ ~g.autoZWNJ
                /\ f.mask # g.mask
          /\ \E l \in Range(getStageLookups(mb.m, 0, stage)) : l.index > i

(***************************************************************************)
(* Reordering of a syllable by the Khmer, USE and Indic shapers.  A glyph   *)
(* is [cat, aux, cluster, mask, ligated, multiplied, ligComp]: cat is the    *)
(* complexCategory, aux the complexAux.  The buffer is one syllable,         *)
(* [start, end) = [0, Len(info)).                                            *)
(***************************************************************************)
\* most glyphs of an Indic syllable
MaxSyllable == 5

\* most glyphs of a Khmer or USE syllable
MaxCluster == 4

\* info[from] and info[to] exchanged
moveBackSwap(info, to, from) ==
    [info EXCEPT ![to + 1] = info[from + 1], ![from + 1] = info[to + 1]]

\* info[from] moved down to position to, 0-based, to <= from:
\* t := info[from]; copy(info[to+1:], info[to:from]); info[to] = t
moveBack(info, to, from) ==
    [k \in 1..Len(info) |->
        IF k = to + 1 THEN info[from + 1]
        ELSE IF to + 1 < k /\ k <= from + 1 THEN info[k - 1]
        ELSE info[k]]

\* info[from] moved up to position to, 0-based, from <= to:
\* t := info[from]; copy(info[from:to], info[from+1:]); info[to] = t
moveForward(info, from, to) ==
    [k \in 1..Len(info) |->
        IF k = to + 1 THEN info[from + 1]
        ELSE IF from + 1 <= k /\ k <= to THEN info[k + 1]
        ELSE info[k]]

\* the Khmer loop from glyph i on
RECURSIVE khmerLoop(_, _, _, _, _)
khmerLoop(info, i, numCoengs, start, end) ==
    IF i >= end THEN info
    ELSE IF info[i + 1].cat = "H" /\ numCoengs <= 2 /\ i + 1 < end
    THEN IF info[i + 2].cat = "Ra"
         THEN khmerLoop(moveBack(moveBack(mergeClusters(info, start, i + 2),
                                          start, i),
                                 start + 1, i + 1),
                        i + 1, 2, start, end)
         ELSE khmerLoop(info, i + 1, numCoengs + 1, start, end)
    ELSE IF info[i + 1].cat = "VPre"
    THEN khmerLoop(moveBack(mergeClusters(info, start, i + 1), start, i),
                   i + 1, numCoengs, start, end)
    ELSE khmerLoop(info, i + 1, numCoengs, start, end)

reorderConsonantSyllable(info, start, end) ==
    khmerLoop(info, start + 1, 0, start, end)

postBaseFlags64 ==
    {"FAbv", "FBlw", "FPst", "MAbv", "MBlw", "MPst", "MPre", "VAbv", "VBlw",
     "VPst", "VPre", "VMAbv", "VMBlw", "VMPst", "VMPre"}

isHalantUse(g) == g.cat \in {"H", "HVM", "IS"} /\ ~g.ligated

\* the position the repha moves to, from glyph i on; start when it stays
RECURSIVE rephaTarget(_, _, _, _)
rephaTarget(info, i, start, end) ==
    IF i >= end THEN start
    ELSE LET isPostBaseGlyph == info[i + 1].cat \in postBaseFlags64
                                \/ isHalantUse(info[i + 1])
         IN IF isPostBaseGlyph THEN i - 1
            ELSE IF i = end - 1 THEN i
            ELSE rephaTarget(info, i + 1, start, end)

\* the repha goes to the end of the syllable whatever stands there
moveThingsForwardToEnd(info, start, end) ==
    IF info[start + 1].cat = "R" /\ end - start > 1
    THEN moveForward(mergeClusters(info, start, end), start, end - 1)
    ELSE info

moveThingsForward(info, start, end) ==
    IF info[start + 1].cat = "R" /\ end - start > 1
    THEN LET i == rephaTarget(info, start + 1, start, end)
         IN moveForward(mergeClusters(info, start, i + 1), start, i)
    ELSE info

RECURSIVE moveThingsBack(_, _, _, _)
moveThingsBack(info, i, j, end) ==
    IF i >= end THEN info
    ELSE IF isHalantUse(info[i + 1]) THEN moveThingsBack(info, i + 1, i + 1, end)
    ELSE IF info[i + 1].cat \in {"VPre", "VMPre"} /\ info[i + 1].ligComp = 0 /\ j < i
    THEN moveThingsBack(moveBack(mergeClusters(info, j, i + 1), j, i), i + 1, j, end)
    ELSE moveThingsBack(info, i + 1, j, end)

\* the syllable types that are reordered
useReordered ==
    {"virama_terminated_cluster", "sakot_terminated_cluster", "standard_cluster",
     "symbol_cluster", "broken_cluster"}

reorderSyllableUse(info, syllableType, start, end) ==
    IF syllableType \notin useReordered THEN info
    ELSE moveThingsBack(moveThingsForward(info, start, end), start, start, end)

posStart == 0

posRaToBecomeReph == 1

posPreM == 2

posPreC == 3

posBaseC == 4

posAfterMain == 5

posBelowC == 8

posPostC == 11

posAfterPost == 12

posSmvd == 13

posEnd == 14

\* info[i] of a 0-based slice
at(info, i) == info[i + 1]

isOneOf(g, flags) == ~g.ligated /\ g.cat \in flags

consonantFlags == {"C", "CS", "Ra", "CM", "V", "PLACEHOLDER", "DOTTEDCIRCLE"}

joinerFlags == {"ZWJ", "ZWNJ"}

isJoiner(g) == isOneOf(g, joinerFlags)

isConsonant(g) == isOneOf(g, consonantFlags)

isHalant(g) == isOneOf(g, {"H"})

ligatedAndDidntMultiply(g) == g.ligated /\ ~g.multiplied

\* indicConfigs: the reph position and mode of the scripts of the model
indicConfig(script) ==
    CASE script = "Devanagari" -> [rephPos |-> "BeforePost", rephMode |-> "Implicit"]
      [] script = "Bengali" -> [rephPos |-> "AfterSub", rephMode |-> "Implicit"]
      [] script = "Oriya" -> [rephPos |-> "AfterMain", rephMode |-> "Implicit"]
      [] script = "Tamil" -> [rephPos |-> "AfterPost", rephMode |-> "Implicit"]
      [] script = "Telugu" -> [rephPos |-> "AfterPost", rephMode |-> "Explicit"]
      [] script = "Kannada" -> [rephPos |-> "AfterPost", rephMode |-> "Implicit"]
      [] OTHER -> [rephPos |-> "AfterMain", rephMode |-> "LogRepha"]

\* the rphf feature of the font ligates Ra, H and, in a script whose reph
\* is explicit, Ra, H, ZWJ
wouldSubstitute(glyphs) ==
    Len(glyphs) >= 2 /\ glyphs[1].cat = "Ra" /\ glyphs[2].cat = "H"
    /\ (Len(glyphs) = 3 => glyphs[3].cat = "ZWJ")

RECURSIVE skipJoiners(_, _, _)
skipJoiners(info, limit, end) ==
    IF limit < end /\ isJoiner(at(info, limit))
    THEN skipJoiners(info, limit + 1, end) ELSE limit

\* the limit of the base search and whether the syllable has a reph
rephLimit(info, p, start, end) ==
    LET mode == indicConfig(p.script).rephMode
    IN IF /\ p.rphf
          /\ start + 3 <= end
          /\ \/ mode = "Implicit" /\ ~isJoiner(at(info, start + 2))
             \/ mode = "Explicit" /\ at(info, start + 2).cat = "ZWJ"
       THEN IF \/ wouldSubstitute(SubSeq(info, start + 1, start + 2))
               \/ mode = "Explicit" /\ wouldSubstitute(SubSeq(info, start + 1, start + 3))
            THEN [limit |-> skipJoiners(info, start + 2, end), hasReph |-> TRUE]
            ELSE [limit |-> start, hasReph |-> FALSE]
       ELSE IF mode = "LogRepha" /\ at(info, start).cat = "Repha"
       THEN [limit |-> skipJoiners(info, start + 1, end), hasReph |-> TRUE]
       ELSE [limit |-> start, hasReph |-> FALSE]

\* the base search, backwards from glyph i; base is the base so far
RECURSIVE baseSearch(_, _, _, _, _, _)
baseSearch(info, i, seenBelow, base, start, limit) ==
    LET k == i - 1
        g == at(info, k)
    IN IF isConsonant(g)
       THEN IF g.aux # posBelowC /\ (g.aux # posPostC \/ seenBelow) THEN k
            ELSE IF k > limit
            THEN baseSearch(info, k, seenBelow \/ g.aux = posBelowC, k, start, limit)
            ELSE k
       ELSE IF start < k /\ g.cat = "ZWJ" /\ at(info, k - 1).cat = "H" THEN base
       ELSE IF k > limit THEN baseSearch(info, k, seenBelow, base, start, limit)
       ELSE base

\* 1. Find base consonant: [base, hasReph]
findBase(info, p, start, end) ==
    LET r == rephLimit(info, p, start, end)
        base == baseSearch(info, end, FALSE, IF r.hasReph THEN start ELSE end,
                           start, r.limit)
    IN [base |-> base,
        hasReph |-> r.hasReph /\ ~(base = start /\ r.limit - base <= 2)]

\* the positions of the glyphs before base, of base and of the reph
setPositions(info, base, hasReph, start, end) ==
    [k \in 1..Len(info) |->
        LET i == k - 1
        IN IF hasReph /\ i = start THEN [info[k] EXCEPT !.aux = posRaToBecomeReph]
           ELSE IF i = base THEN [info[k] EXCEPT !.aux = posBaseC]
           ELSE IF start <= i /\ i < base THEN [info[k] EXCEPT !.aux = Min(posPreC, @)]
           ELSE info[k]]

\* the glyph the first post-base halant moves behind: the search from j down
RECURSIVE halantTarget(_, _, _, _)
halantTarget(info, j, i, disallowDoubleHalants) ==
    IF j <= i THEN j
    ELSE IF isConsonant(at(info, j))
            \/ (disallowDoubleHalants /\ at(info, j).cat = "H") THEN j
    ELSE halantTarget(info, j - 1, i, disallowDoubleHalants)

\* old-style script tags: the first post-base halant goes after the last consonant
RECURSIVE moveHalant(_, _, _, _)
moveHalant(info, i, p, end) ==
    IF i >= end THEN info
    ELSE IF at(info, i).cat = "H"
    THEN LET j == halantTarget(info, end - 1, i, p.script = "Kannada")
         IN IF at(info, j).cat # "H" /\ j > i THEN moveForward(info, i, j) ELSE info
    ELSE moveHalant(info, i + 1, p, end)

\* the position a halant after a left matra takes: that of the nearest
\* glyph before it that is no left matra
RECURSIVE halantPosition(_, _, _, _)
halantPosition(info, i, j, start) ==
    IF j <= start THEN at(info, i).aux
    ELSE IF at(info, j - 1).aux # posPreM THEN at(info, j - 1).aux
    ELSE halantPosition(info, i, j - 1, start)

\* Attach misc marks to previous char to move with them.
RECURSIVE attachMarks(_, _, _, _, _)
attachMarks(info, i, lastPos, start, end) ==
    IF i >= end THEN info
    ELSE LET g == at(info, i)
         IN IF g.cat \in joinerFlags \cup {"N", "RS", "CM", "H"}
            THEN LET a == [info EXCEPT ![i + 1].aux = lastPos]
                 IN IF g.cat = "H" /\ lastPos = posPreM
                    THEN attachMarks([a EXCEPT ![i + 1].aux = halantPosition(a, i, i, start)],
                                     i + 1, lastPos, start, end)
                    ELSE attachMarks(a, i + 1, lastPos, start, end)
            ELSE IF g.aux # posSmvd
            THEN IF g.cat = "MPst" /\ i > start /\ at(info, i - 1).cat = "SM"
                 THEN attachMarks([info EXCEPT ![i].aux = g.aux], i + 1, g.aux, start, end)
                 ELSE attachMarks(info, i + 1, g.aux, start, end)
            ELSE attachMarks(info, i + 1, lastPos, start, end)

\* For post-base consonants let them own anything before them since the
\* last consonant or matra.
RECURSIVE ownPostBase(_, _, _, _)
ownPostBase(info, i, last, end) ==
    IF i >= end THEN info
    ELSE IF isConsonant(at(info, i))
    THEN ownPostBase([k \in 1..Len(info) |->
                         IF last + 1 <= k - 1 /\ k - 1 < i /\ info[k].aux < posSmvd
                         THEN [info[k] EXCEPT !.aux = at(info, i).aux]
                         ELSE info[k]],
                     i + 1, i, end)
    ELSE IF at(info, i).cat \in {"M", "MPst"} THEN ownPostBase(info, i + 1, i, end)
    ELSE ownPostBase(info, i + 1, last, end)

\* sort.SliceStable by complexAux
RECURSIVE sortByAux(_, _)
sortByAux(info, a) ==
    IF a > posEnd THEN <<>>
    ELSE SelectSeq(info, LAMBDA g : g.aux = a) \o sortByAux(info, a + 1)

\* Buffer.reverseRange: the glyphs of [a, b) in reverse order
reverseRange(info, a, b) ==
    [k \in 1..Len(info) |->
        IF a < k /\ k <= b THEN info[a + b + 1 - k] ELSE info[k]]

\* base and the left matras of the sorted syllable, from glyph i on
RECURSIVE findLeftMatras(_, _, _, _, _)
findLeftMatras(info, i, first, last, end) ==
    IF i >= end THEN [base |-> end, first |-> first, last |-> last]
    ELSE IF at(info, i).aux = posBaseC THEN [base |-> i, first |-> first, last |-> last]
    ELSE IF at(info, i).aux = posPreM
    THEN findLeftMatras(info, i + 1, IF first = end THEN i ELSE first, i, end)
    ELSE findLeftMatras(info, i + 1, first, last, end)

\* Reverse back nuktas, etc.
RECURSIVE reverseBack(_, _, _, _)
reverseBack(info, i, j, last) ==
    IF j > last THEN info
    ELSE IF at(info, j).cat \in {"M", "MPst"}
    THEN reverseBack(reverseRange(info, i, j + 1), j + 1, j + 1, last)
    ELSE reverseBack(info, i, j + 1, last)

\* the left matras left in the order of the sort
flipLeftMatrasNone(info, m) == info

flipLeftMatras(info, m) ==
    IF m.first < m.last
    THEN reverseBack(reverseRange(info, m.first, m.last + 1), m.first, m.first, m.last)
    ELSE info

\* the cycle of the sort through glyph i, followed from j: the least and
\* greatest position [mi, ma] and the syllable fields with the cycle marked
RECURSIVE followCycle(_, _, _, _, _, _)
followCycle(info, i, j, mi, ma, start) ==
    IF j = i THEN [info |-> info, mi |-> mi, ma |-> ma]
    ELSE followCycle([info EXCEPT ![j + 1].syllable = 255], i,
                     start + at(info, j).syllable, Min(mi, j), Max(ma, j), start)

\* the clusters of what the sort moved at or after base
RECURSIVE mergeSorted(_, _, _, _, _)
mergeSorted(info, i, base, start, end) ==
    IF i >= end THEN info
    ELSE IF at(info, i).syllable # 255
    THEN LET c == followCycle(info, i, start + at(info, i).syllable, i, i, start)
         IN mergeSorted(mergeClusters(c.info, Max(base, c.mi), c.ma + 1),
                        i + 1, base, start, end)
    ELSE mergeSorted(info, i + 1, base, start, end)

\* the Kannada Ra, H, ZWJ that is taken as Ra, ZWJ, H
swapKannada(info, p, start, end) ==
    IF /\ p.script = "Kannada"
       /\ start + 3 <= end
       /\ isOneOf(at(info, start), {"Ra"})
       /\ isOneOf(at(info, start + 1), {"H"})
       /\ isOneOf(at(info, start + 2), {"ZWJ"})
    THEN LET m == mergeClusters(info, start + 1, start + 3)
         IN [m EXCEPT ![start + 2] = m[start + 3], ![start + 3] = m[start + 2]]
    ELSE info

\* the positions of the glyphs of the syllable, as the sort finds them
\* p is the plan: [script, isOldSpec, rphf]
positionedSyllable(info0, p, start, end) ==
    LET info1 == swapKannada(info0, p, start, end)
        b == findBase(info1, p, start, end)
        info2 == setPositions(info1, b.base, b.hasReph, start, end)
        info3 == IF p.isOldSpec THEN moveHalant(info2, b.base + 1, p, end) ELSE info2
        info4 == attachMarks(info3, start, posStart, start, end)
    IN ownPostBase(info4, b.base + 1, b.base, end)

\* the sort of the syllable: the syllable field of a glyph is its place in
\* the syllable (a uint8) while the slice info[start:end] is sorted and the
\* clusters are merged, and the syllable value is put back in
sortSyllable(info5, p, start, end) ==
    LET syllable == at(info5, start).syllable
        inSlice(k) == start < k /\ k <= end
        numbered == [k \in 1..Len(info5) |->
                        IF inSlice(k)
                        THEN [info5[k] EXCEPT !.syllable = (k - 1 - start) % 256]
                        ELSE info5[k]]
        info6 == SubSeq(numbered, 1, start)
                 \o sortByAux(SubSeq(numbered, start + 1, end), posStart)
                 \o SubSeq(numbered, end + 1, Len(numbered))
        m == findLeftMatras(info6, start, end, end, end)
        info7 == flipLeftMatras(info6, m)
        info8 == IF p.isOldSpec \/ end - start > 127
                 THEN mergeClusters(info7, m.base, end)
                 ELSE mergeSorted(info7, m.base, m.base, start, end)
    IN [k \in 1..Len(info8) |->
           IF inSlice(k) THEN [info8[k] EXCEPT !.syllable = syllable] ELSE info8[k]]

initialReorderingConsonantSyllable(info0, p, start, end) ==
    sortSyllable(positionedSyllable(info0, p, start, end), p, start, end)

\* a ligature substitution of the glyphs i and i + 1: the clusters are
\* merged and the ligature keeps the properties of the first glyph
ligate(info, i) ==
    LET m == mergeClusters(info, i, i + 2)
    IN SubSeq(m, 1, i) \o << [m[i + 1] EXCEPT !.ligated = TRUE] >>
       \o SubSeq(m, i + 3, Len(m))

\* the basic shaping features between the two reorderings: rphf ligates the
\* Ra, H of the reph when reph holds, half the consonant, H pairs before
\* base when half holds
RECURSIVE substitute(_, _, _, _)
substitute(info, i, reph, half) ==
    IF i + 1 >= Len(info) THEN info
    ELSE LET g == at(info, i)
             h == at(info, i + 1)
         IN IF /\ isConsonant(g) /\ isHalant(h) /\ g.aux = h.aux
               /\ \/ reph /\ g.aux = posRaToBecomeReph
                  \/ half /\ g.aux = posPreC
            THEN substitute(ligate(info, i), i + 1, reph, half)
            ELSE substitute(info, i + 1, reph, half)

\* For Malayalam, skip over unformed below- (but NOT post-) forms.
RECURSIVE malayalamBase(_, _, _, _)
malayalamBase(info, i0, base, end) ==
    IF i0 >= end THEN [info |-> info, base |-> base]
    ELSE LET i1 == skipJoiners(info, i0, end)
         IN IF i1 = end \/ ~isHalant(at(info, i1)) THEN [info |-> info, base |-> base]
            ELSE LET i2 == skipJoiners(info, i1 + 1, end)
                 IN IF i2 < end /\ isConsonant(at(info, i2)) /\ at(info, i2).aux = posBelowC
                    THEN malayalamBase([info EXCEPT ![i2 + 1].aux = posBaseC],
                                       i2 + 1, i2, end)
                    ELSE malayalamBase(info, i2 + 1, base, end)

RECURSIVE backOverHalants(_, _, _)
backOverHalants(info, base, start) ==
    IF start < base /\ isOneOf(at(info, base), {"N", "H"})
    THEN backOverHalants(info, base - 1, start) ELSE base

\* Find base again, from glyph base on: [info, base]
RECURSIVE findBaseAgain(_, _, _, _, _)
findBaseAgain(info, base, p, start, end) ==
    IF base < end /\ at(info, base).aux < posBaseC
    THEN findBaseAgain(info, base + 1, p, start, end)
    ELSE LET m == IF base < end /\ p.script = "Malayalam"
                  THEN malayalamBase(info, base + 1, base, end)
                  ELSE [info |-> info, base |-> base]
             b1 == IF m.base < end /\ start < m.base /\ at(m.info, m.base).aux > posBaseC
                   THEN m.base - 1 ELSE m.base
             b2 == IF b1 = end /\ start < b1 /\ isOneOf(at(m.info, b1 - 1), {"ZWJ"})
                   THEN b1 - 1 ELSE b1
         IN [info |-> m.info,
             base |-> IF b2 < end THEN backOverHalants(m.info, b2, start) ELSE b2]

\* the glyph the left matras move behind, searched down from newPos
RECURSIVE matraSearch(_, _, _, _)
matraSearch(info, newPos0, start, end) ==
    IF newPos0 > start /\ ~isOneOf(at(info, newPos0), {"M", "MPst", "H"})
    THEN matraSearch(info, newPos0 - 1, start, end)
    ELSE IF isHalant(at(info, newPos0)) /\ at(info, newPos0).aux # posPreM
    THEN IF newPos0 + 1 < end /\ at(info, newPos0 + 1).cat = "ZWJ" /\ newPos0 > start
         THEN matraSearch(info, newPos0 - 1, start, end)
         ELSE newPos0
    ELSE start

\* the left matras before newPos go to newPos, one after the other
RECURSIVE moveMatras(_, _, _, _, _, _)
moveMatras(info, i, newPos, base, start, end) ==
    IF i <= start THEN [info |-> info, base |-> base]
    ELSE IF at(info, i - 1).aux = posPreM
    THEN LET oldPos == i - 1
             b == IF oldPos < base /\ base <= newPos THEN base - 1 ELSE base
             moved == moveForward(info, oldPos, newPos)
         IN moveMatras(mergeClusters(moved, newPos, Min(end, b + 1)),
                       i - 1, newPos - 1, b, start, end)
    ELSE moveMatras(info, i - 1, newPos, base, start, end)

RECURSIVE mergeFirstMatra(_, _, _, _)
mergeFirstMatra(info, i, base, end) ==
    IF i >= base THEN info
    ELSE IF at(info, i).aux = posPreM THEN mergeClusters(info, i, Min(end, base + 1))
    ELSE mergeFirstMatra(info, i + 1, base, end)

\* o Reorder matras: [info, base]
reorderMatras(info, base, p, start, end) ==
    IF start + 1 < end /\ start < base
    THEN LET first == IF base = end THEN base - 2 ELSE base - 1
             newPos == IF p.script \notin {"Malayalam", "Tamil"}
                       THEN matraSearch(info, first, start, end) ELSE first
         IN IF start < newPos /\ at(info, newPos).aux # posPreM
            THEN moveMatras(info, newPos, newPos, base, start, end)
            ELSE [info |-> mergeFirstMatra(info, start, base, end), base |-> base]
    ELSE [info |-> info, base |-> base]

\* steps 2 and 5: after the first explicit halant before base, end when
\* there is none
RECURSIVE afterHalant(_, _, _, _)
afterHalant(info, newRephPos, base, end) ==
    IF newRephPos < base /\ ~isHalant(at(info, newRephPos))
    THEN afterHalant(info, newRephPos + 1, base, end)
    ELSE IF newRephPos < base
    THEN IF newRephPos + 1 < base /\ isJoiner(at(info, newRephPos + 1))
         THEN newRephPos + 1 ELSE newRephPos
    ELSE end

\* steps 3 and 4: forward from base over the glyphs whose position is not in stop
RECURSIVE afterBase(_, _, _, _)
afterBase(info, newRephPos, stop, end) ==
    IF newRephPos + 1 < end /\ at(info, newRephPos + 1).aux \notin stop
    THEN afterBase(info, newRephPos + 1, stop, end) ELSE newRephPos

RECURSIVE beforeSmvd(_, _, _)
beforeSmvd(info, newRephPos, start) ==
    IF newRephPos > start /\ at(info, newRephPos).aux = posSmvd
    THEN beforeSmvd(info, newRephPos - 1, start) ELSE newRephPos

RECURSIVE beforeMatraHalant(_, _, _)
beforeMatraHalant(info, i, newRephPos) ==
    IF i >= newRephPos THEN newRephPos
    ELSE IF at(info, i).cat \in {"M", "MPst"}
    THEN beforeMatraHalant(info, i + 1, newRephPos - 1)
    ELSE beforeMatraHalant(info, i + 1, newRephPos)

\* step 6: the end of the syllable
rephStep6(info, base, uniscribeBugCompatible, start, end) ==
    LET n == beforeSmvd(info, end - 1, start)
    IN IF ~uniscribeBugCompatible /\ isHalant(at(info, n))
       THEN beforeMatraHalant(info, base + 1, n) ELSE n

newRephPosition(info, base, p, start, end) ==
    LET rephPos == indicConfig(p.script).rephPos
        s2 == afterHalant(info, start + 1, base, end)
        s3 == afterBase(info, base, (posAfterMain + 1)..posEnd, end)
        s4 == afterBase(info, base, {posPostC, posAfterPost, posSmvd}, end)
    IN IF s2 < end THEN s2
       ELSE IF rephPos = "AfterMain" /\ s3 < end THEN s3
       ELSE IF rephPos = "AfterSub" /\ s4 < end THEN s4
       ELSE rephStep6(info, base, p.uniscribeBugCompatible, start, end)

\* o Reorder reph: [info, base]
reorderReph(info, base, p, start, end) ==
    IF /\ start + 1 < end
       /\ at(info, start).aux = posRaToBecomeReph
       /\ (at(info, start).cat = "Repha") # ligatedAndDidntMultiply(at(info, start))
    THEN LET newRephPos == newRephPosition(info, base, p, start, end)
         IN [info |-> moveForward(mergeClusters(info, start, newRephPos + 1),
                                  start, newRephPos),
             base |-> IF start < base /\ base <= newRephPos THEN base - 1 ELSE base]
    ELSE [info |-> info, base |-> base]

\* p is the plan: [script, isOldSpec, rphf, uniscribeBugCompatible]
finalReorderingSyllableIndic(info, p, start, end) ==
    LET b == findBaseAgain(info, start, p, start, end)
        m == reorderMatras(b.info, b.base, p, start, end)
        r == reorderReph(m.info, m.base, p, start, end)
    IN IF p.uniscribeBugCompatible /\ p.script # "Tamil"
       THEN mergeClusters(r.info, start, end) ELSE r.info

glyph(cat, aux) ==
    [cat |-> cat, aux |-> aux, cluster |-> 0, mask |-> {}, ligated |-> FALSE,
     multiplied |-> FALSE, ligComp |-> 0, syllable |-> 0]

\* the glyphs of the Khmer syllables
khmerGlyphs == {glyph(c, 0) : c \in {"C", "H", "Ra", "VPre", "VPst"}}

\* the glyphs of the USE syllables: a ligated halant and the second
\* component of a multiple substitution among them
useGlyphs ==
    {glyph(c, 0) : c \in {"B", "R", "H", "VPre", "VPst"}}
    \cup {[glyph("H", 0) EXCEPT !.ligated = TRUE],
          [glyph("VPre", 0) EXCEPT !.ligComp = 1]}

\* the consonant syllables of the Indic syllable machine, of no more than
\* MaxSyllable glyphs, over consonants with a base, below-base or post-base
\* form, Ra, halant, nukta, ZWJ and a left and a right matra:
\*   cn = c.ZWJ?.N?   halant_group = ZWJ?.H.ZWJ?
\*   matra_group = ZWJ?.M.N?.H?
\*   consonant_syllable = cn.(halant_group.cn){0,4}.(halant_group | matra_group{0,4})
indicSyllables ==
    LET Cat(A, B) ==
            {ab[1] \o ab[2] :
                ab \in {x \in A \X B : Len(x[1]) + Len(x[2]) <= MaxSyllable}}
        Opt(A) == A \cup {<<>>}
        RECURSIVE Rep(_, _)
        Rep(A, k) == IF k = 0 THEN {<<>>} ELSE {<<>>} \cup Cat(A, Rep(A, k - 1))
        One(cat, aux) == {<< glyph(cat, aux) >>}
        c == One("C", posBaseC) \cup One("C", posBelowC) \cup One("C", posPostC)
             \cup One("Ra", posBaseC)
        cn == Cat(c, Cat(Opt(One("ZWJ", posEnd)), Opt(One("N", posEnd))))
        halantGroup ==
            Cat(Opt(One("ZWJ", posEnd)), Cat(One("H", posEnd), Opt(One("ZWJ", posEnd))))
        matraGroup ==
            Cat(Opt(One("ZWJ", posEnd)),
                Cat(One("M", posPreM) \cup One("M", posAfterPost),
                    Cat(Opt(One("N", posEnd)), Opt(One("H", posEnd)))))
    IN Cat(cn,
           Cat(Rep(Cat(halantGroup, cn), 4),
               halantGroup \cup Rep(matraGroup, 4)))

\* the sequences of 1 to n glyphs that start with a glyph of first
Syllables(glyphs, first, n) ==
    UNION {{s \in [1..k -> glyphs] : s[1] \in first} : k \in 1..n}

\* the clusters of the characters: one cluster for each or for each pair
Clusterings == {1, 2}

withClusters(s, c) == [k \in 1..Len(s) |-> [s[k] EXCEPT !.cluster = (k - 1) \div c]]

idleReorder(shaper, s) ==
    [pc |-> "start", shaper |-> shaper, info |-> s, input |-> s,
     syllableType |-> "consonant_syllable",
     p |-> [script |-> "Khmer", isOldSpec |-> FALSE, rphf |-> FALSE,
            uniscribeBugCompatible |-> FALSE]]

IndicScripts == {"Devanagari", "Bengali", "Oriya", "Kannada", "Malayalam"}

InitReorder ==
    /\ font = fontTiny
    /\ plan = newPlan(font)
    /\ buffers = <<>>
    /\ shapers = <<>>
    /\ hist = noHist
    /\ pf = idlePf
    /\ mb = idleMb
    /\ sd = idleSd
    /\ it = idleIt
    /\ cl = idleCl
    /\ lg = idleLg
    /\ lp = idleLp
    /\ aat = idleAat
    /\ gp = idleGp
    /\ vr = idleVr
    /\ \E c \in Clusterings :
          \/ \E s \in Syllables(khmerGlyphs, {glyph("C", 0), glyph("Ra", 0)}, MaxCluster) :
                ro = idleReorder("khmer", withClusters(s, c))
          \/ \E s \in Syllables(useGlyphs, useGlyphs, MaxCluster),
                t \in {"standard_cluster", "number_joiner_terminated_cluster"} :
                ro = [idleReorder("use", withClusters(s, c)) EXCEPT !.syllableType = t]
          \/ \E s \in indicSyllables,
                script \in IndicScripts, old \in BOOLEAN :
                ro = [idleReorder("indic", withClusters(s, c))
                        EXCEPT !.p = [script |-> script, isOldSpec |-> old, rphf |-> TRUE,
                                      uniscribeBugCompatible |-> FALSE]]

ReorderKhmer ==
    /\ ro.pc = "start" /\ ro.shaper = "khmer"
    /\ ro' = [ro EXCEPT !.pc = "done",
                        !.info = reorderConsonantSyllable(ro.info, 0, Len(ro.info))]
    /\ UNCHANGED <<font, plan, buffers, shapers, hist, pf, mb, sd, it, cl, lg, lp, aat, gp, vr>>

ReorderUse ==
    /\ ro.pc = "start" /\ ro.shaper = "use"
    /\ ro' = [ro EXCEPT !.pc = "done",
                        !.info = reorderSyllableUse(ro.info, ro.syllableType,
                                                    0, Len(ro.info))]
    /\ UNCHANGED <<font, plan, buffers, shapers, hist, pf, mb, sd, it, cl, lg, lp, aat, gp, vr>>

InitialReorderingIndic ==
    /\ ro.pc = "start" /\ ro.shaper = "indic"
    /\ ro' = [ro EXCEPT !.pc = "basic",
                        !.info = initialReorderingConsonantSyllable(ro.info, ro.p,
                                                                    0, Len(ro.info))]
    /\ UNCHANGED <<font, plan, buffers, shapers, hist, pf, mb, sd, it, cl, lg, lp, aat, gp, vr>>

SubstituteIndic ==
    /\ ro.pc = "basic"
    /\ \E reph \in BOOLEAN, half \in BOOLEAN :
          ro' = [ro EXCEPT !.pc = "final", !.info = substitute(ro.info, 0, reph, half)]
    /\ UNCHANGED <<font, plan, buffers, shapers, hist, pf, mb, sd, it, cl, lg, lp, aat, gp, vr>>

FinalReorderingIndic ==
    /\ ro.pc = "final"
    /\ ro' = [ro EXCEPT !.pc = "done",
                        !.info = finalReorderingSyllableIndic(ro.info, ro.p,
                                                              0, Len(ro.info))]
    /\ UNCHANGED <<font, plan, buffers, shapers, hist, pf, mb, sd, it, cl, lg, lp, aat, gp, vr>>

NextReorder ==
    \/ ReorderKhmer
    \/ ReorderUse
    \/ InitialReorderingIndic
    \/ SubstituteIndic
    \/ FinalReorderingIndic

SpecReorder == InitReorder /\ [][NextReorder]_vars

\* C8: when a shaper has done its reordering the clusters do not decrease
\* along the glyphs.
C8_ClustersMonotone ==
    ro.pc = "done" =>
        \A k \in 1..(Len(ro.info) - 1) : ro.info[k].cluster <= ro.info[k + 1].cluster


(***************************************************************************)
(* The set digest as a set: glyphs are added one at a time, as arrays and   *)
(* as ranges.  A setBits is a uint32; the sum in addRange is computed on    *)
(* the two 16 bit halves of the words, modulo 2^32.                         *)
(***************************************************************************)
MaxDigestOps == 2

\* setBits.addRange without the subtraction of one when the range wraps
addRangeNoBorrow(bits, a, b, k) ==
    LET half == 65536
        word(h) == IF h < 16 THEN <<0, 2 ^ h>> ELSE <<2 ^ (h - 16), 0>>
        plus(x, y) == << (x[1] + y[1] + ((x[2] + y[2]) \div half)) % half,
                         (x[2] + y[2]) % half >>
        minus(x, y) == << (x[1] - y[1] - (IF x[2] < y[2] THEN 1 ELSE 0) + half) % half,
                          (x[2] - y[2] + half) % half >>
        bitSet(x) == bitsOf(x[2]) \cup {j + 16 : j \in bitsOf(x[1])}
        wb == word(maskFor(b, k))
        wa == word(maskFor(a, k))
    IN IF (b \div digestShifts[k]) - (a \div digestShifts[k]) >= maskBits - 1
       THEN 0..(maskBits - 1)
       ELSE bits \cup bitSet(plus(wb, minus(wb, wa)))

\* setBits.addRange: the words are <<high half, low half>>
addRange(bits, a, b, k) ==
    LET half == 65536
        word(h) == IF h < 16 THEN <<0, 2 ^ h>> ELSE <<2 ^ (h - 16), 0>>
        plus(x, y) == << (x[1] + y[1] + ((x[2] + y[2]) \div half)) % half,
                         (x[2] + y[2]) % half >>
        minus(x, y) == << (x[1] - y[1] - (IF x[2] < y[2] THEN 1 ELSE 0) + half) % half,
                          (x[2] - y[2] + half) % half >>
        less(x, y) == x[1] < y[1] \/ (x[1] = y[1] /\ x[2] < y[2])
        bitSet(x) == bitsOf(x[2]) \cup {j + 16 : j \in bitsOf(x[1])}
        wb == word(maskFor(b, k))
        wa == word(maskFor(a, k))
        op == IF less(wb, wa) THEN <<0, 1>> ELSE <<0, 0>>
    IN IF (b \div digestShifts[k]) - (a \div digestShifts[k]) >= maskBits - 1
       THEN 0..(maskBits - 1)
       ELSE bits \cup bitSet(minus(plus(wb, minus(wb, wa)), op))

digestAddRange(d, a, b) == [k \in 1..3 |-> addRange(d[k], a, b, k)]

\* glyphs at the ends of the masks: with the shifts 0, 4 and 9 ranges between
\* them stay within a mask, wrap around it and fill it
DigestGlyphs == {0, 5, 31, 40, 500, 520, 15900, 16390, 16900, 32300}

DigestArrays == {{5, 40}, {520, 16390, 65535}}

InitDigest ==
    /\ font = fontTiny
    /\ plan = newPlan(font)
    /\ buffers = <<>>
    /\ shapers = <<>>
    /\ hist = noHist
    /\ pf = idlePf
    /\ mb = idleMb
    /\ ro = idleRo
    /\ it = idleIt
    /\ cl = idleCl
    /\ lg = idleLg
    /\ lp = idleLp
    /\ aat = idleAat
    /\ gp = idleGp
    /\ vr = idleVr
    /\ sd = [pc |-> "digest", digest |-> emptyDigest, glyphs |-> {}, ranges |-> {}, n |-> 0]

DigestAdd ==
    /\ sd.pc = "digest"
    /\ sd.n < MaxDigestOps
    /\ \E g \in DigestGlyphs :
          sd' = [sd EXCEPT !.digest = digestAdd(@, g), !.glyphs = @ \cup {g}, !.n = @ + 1]
    /\ UNCHANGED <<font, plan, buffers, shapers, hist, pf, mb, ro, it, cl, lg, lp, aat, gp, vr>>

DigestAddArray ==
    /\ sd.pc = "digest"
    /\ sd.n < MaxDigestOps
    /\ \E gs \in DigestArrays :
          sd' = [sd EXCEPT !.digest = digestAddArray(@, gs), !.glyphs = @ \cup gs,
                           !.n = @ + 1]
    /\ UNCHANGED <<font, plan, buffers, shapers, hist, pf, mb, ro, it, cl, lg, lp, aat, gp, vr>>

DigestAddRange ==
    /\ sd.pc = "digest"
    /\ sd.n < MaxDigestOps
    /\ \E a, b \in DigestGlyphs :
          /\ a <= b
          /\ sd' = [sd EXCEPT !.digest = digestAddRange(@, a, b),
                              !.ranges = @ \cup {<<a, b>>}, !.n = @ + 1]
    /\ UNCHANGED <<font, plan, buffers, shapers, hist, pf, mb, ro, it, cl, lg, lp, aat, gp, vr>>

NextDigest == DigestAdd \/ DigestAddArray \/ DigestAddRange

SpecDigest == InitDigest /\ [][NextDigest]_vars

\* Glyphs of the range a..b that stand for all of them: a glyph of the range
\* has its mask for the shift 0 in common with one of the first 32 glyphs,
\* its mask for the shift 4 with a or one of the first 32 multiples of 16, and
\* its mask for the shift 9 with a or a multiple of 512 of the range.
probes(a, b) ==
    (a..Min(b, a + 31))
    \cup {16 * q : q \in ((a + 15) \div 16)..(Min(b, a + 527) \div 16)}
    \cup {512 * q : q \in ((a + 511) \div 512)..(b \div 512)}
    \cup {b}

\* C16: the digest has no false negatives: mayHave is true of every glyph
\* that was added by add or addArray and of every glyph of a range that was
\* added by addRange.
C16_NoFalseNegatives ==
    sd.pc = "digest" =>
        /\ \A g \in sd.glyphs : mayHave(sd.digest, g)
        /\ \A r \in sd.ranges : \A x \in probes(r[1], r[2]) : mayHave(sd.digest, x)

\* a range that wraps around the mask of the shift 4, with bits left unset
\* in each of the three masks
C16_Witness ==
    /\ sd.pc = "digest"
    /\ \E r \in sd.ranges :
          /\ maskFor(r[2], 1) < maskFor(r[1], 1)
          /\ r[1] < r[2]
    /\ \A k \in 1..3 : sd.digest[k] # 0..(maskBits - 1)
    /\ sd.glyphs # {}


(***************************************************************************)
(* The skipping iterator.  The context c is [tableIndex, lookupMask,        *)
(* lookupProps, autoZWJ, autoZWNJ, perSyllable]; a glyph is [unicode,       *)
(* genCat, substituted, glyphProps, mask, syllable] with unicode the set of *)
(* its unicode property bits.  lookupProps holds ignore flags only, no mark *)
(* filtering set and no mark attachment type.                               *)
(***************************************************************************)
allOnes == 0..31

setSyllable(m, syllable) ==
    [m EXCEPT !.syllable = IF m.perSyllable THEN syllable ELSE 0]

\* skippingIterator.init with ZWNJ ignored whenever the lookup asks for it
initAutoZWNJ(c, contextMatch) ==
    setSyllable(
        [matchFunc |-> "nil",
         lookupProps |-> c.lookupProps,
         ignoreZWNJ |-> c.tableIndex = 1 \/ c.autoZWNJ,
         ignoreZWJ |-> contextMatch \/ c.autoZWJ,
         mask |-> IF contextMatch THEN allOnes ELSE c.lookupMask,
         perSyllable |-> c.tableIndex = 0 /\ c.perSyllable,
         syllable |-> 0], 0)

\* skippingIterator.init: the matcher of the iterator
init(c, contextMatch) ==
    setSyllable(
        [matchFunc |-> "nil",
         lookupProps |-> c.lookupProps,
         ignoreZWNJ |-> c.tableIndex = 1 \/ (contextMatch /\ c.autoZWNJ),
         ignoreZWJ |-> contextMatch \/ c.autoZWJ,
         mask |-> IF contextMatch THEN allOnes ELSE c.lookupMask,
         perSyllable |-> c.tableIndex = 0 /\ c.perSyllable,
         syllable |-> 0], 0)

isUnicodeFormat(info) == info.genCat = "format"

isZwnj(info) == isUnicodeFormat(info) /\ "CfZwnj" \in info.unicode

isZwj(info) == isUnicodeFormat(info) /\ "CfZwj" \in info.unicode

isDefaultIgnorableAndNotHidden(info) ==
    /\ info.unicode \cap {"Ignorable", "Hidden"} = {"Ignorable"}
    /\ ~info.substituted

\* the glyph class is not one the lookup flags ignore
checkGlyphProperty(info, matchProps) == info.glyphProps \notin matchProps

mayMatch(m, info) ==
    IF info.mask \cap m.mask = {} \/ (m.syllable # 0 /\ m.syllable # info.syllable)
    THEN "no"
    ELSE "maybe"

maySkip(m, info) ==
    IF ~checkGlyphProperty(info, m.lookupProps) THEN "yes"
    ELSE IF /\ isDefaultIgnorableAndNotHidden(info)
            /\ (m.ignoreZWNJ \/ ~isZwnj(info))
            /\ (m.ignoreZWJ \/ ~isZwj(info))
    THEN "maybe"
    ELSE "no"

match(m, info) ==
    LET skipR == maySkip(m, info)
        matchR == mayMatch(m, info)
    IN IF skipR = "yes" THEN "skip"
       ELSE IF matchR = "yes" \/ (matchR = "maybe" /\ skipR = "no") THEN "match"
       ELSE IF skipR = "no" THEN "notMatch"
       ELSE "skip"

SkipContexts ==
    [tableIndex : {0, 1}, lookupMask : {{4}, {31}}, lookupProps : {{}, {"mark"}},
     autoZWJ : BOOLEAN, autoZWNJ : BOOLEAN, perSyllable : BOOLEAN]

SkipGlyphs ==
    [unicode : {{"Ignorable", "CfZwj"}, {"Ignorable", "CfZwnj"}},
     genCat : {"format"}, substituted : BOOLEAN, glyphProps : {"base"},
     mask : {{4}, {31}}, syllable : {0}]
    \cup [unicode : {{}, {"Ignorable"}, {"Ignorable", "Hidden"}},
          genCat : {"mark"}, substituted : {FALSE}, glyphProps : {"mark"},
          mask : {{4}}, syllable : {0, 1}]

InitSkip ==
    /\ font = fontTiny
    /\ plan = newPlan(font)
    /\ buffers = <<>>
    /\ shapers = <<>>
    /\ hist = noHist
    /\ pf = idlePf
    /\ mb = idleMb
    /\ ro = idleRo
    /\ sd = idleSd
    /\ cl = idleCl
    /\ lg = idleLg
    /\ lp = idleLp
    /\ aat = idleAat
    /\ gp = idleGp
    /\ vr = idleVr
    /\ \E c \in SkipContexts, contextMatch \in BOOLEAN :
          it = [pc |-> "new", c |-> c, contextMatch |-> contextMatch]

SkipInit ==
    /\ it.pc = "new"
    /\ it' = [pc |-> "ready", c |-> it.c, contextMatch |-> it.contextMatch,
              matcher |-> init(it.c, it.contextMatch)]
    /\ UNCHANGED <<font, plan, buffers, shapers, hist, pf, mb, ro, sd, cl, lg, lp, aat, gp, vr>>

SkipMatch ==
    /\ it.pc = "ready"
    /\ \E info \in SkipGlyphs :
          it' = [pc |-> "matched", c |-> it.c, contextMatch |-> it.contextMatch,
                 matcher |-> it.matcher, info |-> info,
                 skip |-> maySkip(it.matcher, info),
                 res |-> match(it.matcher, info)]
    /\ UNCHANGED <<font, plan, buffers, shapers, hist, pf, mb, ro, sd, cl, lg, lp, aat, gp, vr>>

NextSkip == SkipInit \/ SkipMatch

SpecSkip == InitSkip /\ [][NextSkip]_vars

\* the glyph the iterator has looked at is a joiner that is not substituted
joinerSeen(cf) == it.pc = "matched" /\ cf \in it.info.unicode /\ ~it.info.substituted

\* C17 as stated: for context matching the mask is all ones and ZWJ is
\* skipped; for input matching the mask is the lookup mask, ZWJ is skipped
\* when the lookup has autoZWJ and ZWNJ when it has autoZWNJ.
C17_InputHonoursBoth ==
    /\ it.pc \in {"ready", "matched"} =>
          IF it.contextMatch THEN it.matcher.mask = allOnes
          ELSE it.matcher.mask = it.c.lookupMask
    /\ joinerSeen("CfZwj") =>
          (it.skip = "maybe") = (it.contextMatch \/ it.c.autoZWJ)
    /\ (joinerSeen("CfZwnj") /\ ~it.contextMatch) =>
          (it.skip = "maybe") = it.c.autoZWNJ

\* C17 amended: for context matching the mask is all ones, ZWJ is skipped and
\* ZWNJ is skipped in GPOS and, in GSUB, when the lookup has autoZWNJ; for
\* input matching the mask is the lookup mask, ZWJ is skipped when the lookup
\* has autoZWJ, and ZWNJ is skipped in GPOS and never in GSUB.
C17_ZWNJByTableAndContext ==
    /\ it.pc \in {"ready", "matched"} =>
          IF it.contextMatch THEN it.matcher.mask = allOnes
          ELSE it.matcher.mask = it.c.lookupMask
    /\ joinerSeen("CfZwj") =>
          (it.skip = "maybe") = (it.contextMatch \/ it.c.autoZWJ)
    /\ joinerSeen("CfZwnj") =>
          (it.skip = "maybe")
              = (it.c.tableIndex = 1 \/ (it.contextMatch /\ it.c.autoZWNJ))

\* an iterator for the input of a GSUB lookup with autoZWNJ that is at a
\* ZWNJ with the bit of the lookup and matches it
C17_Witness ==
    /\ joinerSeen("CfZwnj")
    /\ ~it.contextMatch /\ it.c.tableIndex = 0 /\ it.c.autoZWNJ
    /\ it.skip = "no" /\ it.res = "match"

(***************************************************************************)
(* Context and chained context lookups of format 1 and 2: the choice of    *)
(* the rule set, on the apply path (otApplyContext) and on the would-apply  *)
(* path (wouldApplyContext).                                                *)
(*                                                                          *)
(* data is a subtable: format, the list ruleSets (SeqRuleSet,               *)
(* ClassSeqRuleSet, ChainedSeqRuleSet, ChainedClassSeqRuleSet) and, for     *)
(* format 2, the class definition classDef, which here serves the           *)
(* backtrack, the input and the lookahead alike.  A rule is the three       *)
(* sequences backtrack, input and lookahead, the first and the last empty   *)
(* in a lookup that is not chained; the rules carry no lookup records, so   *)
(* applying a rule moves the buffer to the end of the match.  No glyph is   *)
(* skipped while matching.  A function returns "true", "false" or, where    *)
(* Go indexes a slice out of its range, "panic".                            *)
(***************************************************************************)
MaxRuleSets == 2

MaxClass == 2

CtxGlyphs == {1, 2}

bool(v) == IF v THEN "true" ELSE "false"

matchGlyph(gid, value) == gid = value

matchClass(class, gid, value) == class[gid] = value

\* the matcherFunc of a subtable
matcherFunc(data, gid, value) ==
    IF data.format = 1 THEN matchGlyph(gid, value)
    ELSE matchClass(data.classDef, gid, value)

wouldMatchInput(c, input, data) ==
    /\ Len(c.glyphs) = Len(input) + 1
    /\ \A i \in 1..Len(input) : matcherFunc(data, c.glyphs[i + 1], input[i])

wouldApplyChainLookup(c, rule, data) ==
    /\ c.zeroContext => (Len(rule.backtrack) = 0 /\ Len(rule.lookahead) = 0)
    /\ wouldMatchInput(c, rule.input, data)

wouldApplyRuleSet(c, ruleSet, data) ==
    \E i \in 1..Len(ruleSet) : wouldMatchInput(c, ruleSet[i].input, data)

wouldApplyChainRuleSet(c, ruleSet, data) ==
    \E i \in 1..Len(ruleSet) : wouldApplyChainLookup(c, ruleSet[i], data)

wouldApplyLookupContext1(c, data, index) ==
    IF index >= Len(data.ruleSets) THEN "false"
    ELSE bool(wouldApplyRuleSet(c, data.ruleSets[index + 1], data))

wouldApplyLookupContext2(c, data, glyphID) ==
    LET class == data.classDef[glyphID]
    IN IF class + 1 \notin DOMAIN data.ruleSets THEN "panic"
       ELSE bool(wouldApplyRuleSet(c, data.ruleSets[class + 1], data))

wouldApplyLookupChainedContext1(c, data, index) ==
    IF index >= Len(data.ruleSets) THEN "false"
    ELSE bool(wouldApplyChainRuleSet(c, data.ruleSets[index + 1], data))

wouldApplyLookupChainedContext2(c, data, glyphID) ==
    LET class == data.classDef[glyphID]
    IN IF class + 1 \notin DOMAIN data.ruleSets THEN "panic"
       ELSE bool(wouldApplyChainRuleSet(c, data.ruleSets[class + 1], data))

\* matchInput, matchLookahead and matchBacktrack on a buffer b = [glyphs, idx]
\* (idx counts from 0); the backtrack sequence runs backwards from idx
ctxMatchInput(b, input, data) ==
    /\ b.idx + 1 + Len(input) <= Len(b.glyphs)
    /\ \A i \in 1..Len(input) : matcherFunc(data, b.glyphs[b.idx + 1 + i], input[i])

ctxMatchLookahead(b, lookahead, data, matchEnd) ==
    /\ matchEnd + Len(lookahead) <= Len(b.glyphs)
    /\ \A i \in 1..Len(lookahead) : matcherFunc(data, b.glyphs[matchEnd + i], lookahead[i])

ctxMatchBacktrack(b, backtrack, data) ==
    /\ Len(backtrack) <= b.idx
    /\ \A i \in 1..Len(backtrack) : matcherFunc(data, b.glyphs[b.idx + 1 - i], backtrack[i])

contextApplyLookup(b, rule, data) == ctxMatchInput(b, rule.input, data)

chainContextApplyLookup(b, rule, data) ==
    /\ ctxMatchInput(b, rule.input, data)
    /\ ctxMatchLookahead(b, rule.lookahead, data, b.idx + 1 + Len(rule.input))
    /\ ctxMatchBacktrack(b, rule.backtrack, data)

\* the first rule that matches is applied
applyRuleSet(b, ruleSet, data) ==
    LET hits == {i \in 1..Len(ruleSet) : contextApplyLookup(b, ruleSet[i], data)}
    IN IF hits = {} THEN [res |-> "false", b |-> b]
       ELSE [res |-> "true",
             b |-> [b EXCEPT !.idx = b.idx + 1 + Len(ruleSet[CHOOSE i \in hits : \A j \in hits : i <= j].input)]]

applyChainRuleSet(b, ruleSet, data) ==
    LET hits == {i \in 1..Len(ruleSet) : chainContextApplyLookup(b, ruleSet[i], data)}
    IN IF hits = {} THEN [res |-> "false", b |-> b]
       ELSE [res |-> "true",
             b |-> [b EXCEPT !.idx = b.idx + 1 + Len(ruleSet[CHOOSE i \in hits : \A j \in hits : i <= j].input)]]

applyLookupContext1(b, data, index) ==
    IF index >= Len(data.ruleSets) THEN [res |-> "false", b |-> b]
    ELSE applyRuleSet(b, data.ruleSets[index + 1], data)

applyLookupContext2(b, data, glyphID) ==
    LET class == data.classDef[glyphID]
        ruleSet == IF class < Len(data.ruleSets) THEN data.ruleSets[class + 1] ELSE <<>>
    IN applyRuleSet(b, ruleSet, data)

applyLookupChainedContext1(b, data, index) ==
    IF index >= Len(data.ruleSets) THEN [res |-> "false", b |-> b]
    ELSE applyChainRuleSet(b, data.ruleSets[index + 1], data)

applyLookupChainedContext2(b, data, glyphID) ==
    LET class == data.classDef[glyphID]
        ruleSet == IF class < Len(data.ruleSets) THEN data.ruleSets[class + 1] ELSE <<>>
    IN applyChainRuleSet(b, ruleSet, data)

SeqRule(backtrack, input, lookahead) ==
    [backtrack |-> backtrack, input |-> input, lookahead |-> lookahead]

\* the rule sets of a lookup that is not chained, and of a chained one
CtxRuleSets == {<<>>, <<SeqRule(<<>>, <<>>, <<>>)>>, <<SeqRule(<<>>, <<1>>, <<>>)>>}

ChainRuleSets == {<<>>, <<SeqRule(<<>>, <<>>, <<1>>)>>, <<SeqRule(<<1>>, <<1>>, <<>>)>>}

RuleSetLists(sets) ==
    UNION {[1..n -> sets] : n \in 0..MaxRuleSets}

CtxBuffers ==
    {[glyphs |-> g, idx |-> i] : g \in {<<1>>, <<1, 1>>}, i \in {0}}
    \cup {[glyphs |-> <<2, 1, 1>>, idx |-> 1]}

InitContext ==
    /\ font = fontTiny
    /\ plan = newPlan(font)
    /\ buffers = <<>>
    /\ shapers = <<>>
    /\ hist = noHist
    /\ pf = idlePf
    /\ mb = idleMb
    /\ ro = idleRo
    /\ sd = idleSd
    /\ it = idleIt
    /\ lg = idleLg
    /\ lp = idleLp
    /\ aat = idleAat
    /\ gp = idleGp
    /\ vr = idleVr
    /\ \E chained \in BOOLEAN, format \in {1, 2}, b \in CtxBuffers,
          index \in 0..MaxClass, classDef \in [CtxGlyphs -> 0..MaxClass],
          zc \in BOOLEAN :
          \E ruleSets \in RuleSetLists(IF chained THEN ChainRuleSets ELSE CtxRuleSets) :
             /\ format = 1 => classDef = [g \in CtxGlyphs |-> 0]
             /\ format = 2 => index = 0
             /\ cl = [pc |-> "new", chained |-> chained, index |-> index, b |-> b,
                      data |-> [format |-> format, ruleSets |-> ruleSets,
                                classDef |-> classDef],
                      c |-> [glyphs |-> SubSeq(b.glyphs, b.idx + 1, Len(b.glyphs)),
                             zeroContext |-> zc]]

\* the lookup has been asked; b0 is the buffer as it was
asked(path, r) ==
    [pc |-> "done", path |-> path, chained |-> cl.chained, index |-> cl.index,
     data |-> cl.data, c |-> cl.c, b0 |-> cl.b, b |-> r.b, res |-> r.res]

ContextStep(chained, format, path, r) ==
    /\ cl.pc = "new"
    /\ cl.chained = chained
    /\ cl.data.format = format
    /\ cl' = asked(path, r)
    /\ UNCHANGED <<font, plan, buffers, shapers, hist, pf, mb, ro, sd, it, lg, lp, aat, gp, vr>>

ApplyLookupContext1 ==
    ContextStep(FALSE, 1, "apply", applyLookupContext1(cl.b, cl.data, cl.index))

ApplyLookupContext2 ==
    ContextStep(FALSE, 2, "apply",
                applyLookupContext2(cl.b, cl.data, cl.b.glyphs[cl.b.idx + 1]))

ApplyLookupChainedContext1 ==
    ContextStep(TRUE, 1, "apply", applyLookupChainedContext1(cl.b, cl.data, cl.index))

ApplyLookupChainedContext2 ==
    ContextStep(TRUE, 2, "apply",
                applyLookupChainedContext2(cl.b, cl.data, cl.b.glyphs[cl.b.idx + 1]))

WouldApplyLookupContext1 ==
    ContextStep(FALSE, 1, "would",
                [res |-> wouldApplyLookupContext1(cl.c, cl.data, cl.index), b |-> cl.b])

WouldApplyLookupContext2 ==
    ContextStep(FALSE, 2, "would",
                [res |-> wouldApplyLookupContext2(cl.c, cl.data, cl.c.glyphs[1]), b |-> cl.b])

WouldApplyLookupChainedContext1 ==
    ContextStep(TRUE, 1, "would",
                [res |-> wouldApplyLookupChainedContext1(cl.c, cl.data, cl.index), b |-> cl.b])

WouldApplyLookupChainedContext2 ==
    ContextStep(TRUE, 2, "would",
                [res |-> wouldApplyLookupChainedContext2(cl.c, cl.data, cl.c.glyphs[1]),
                 b |-> cl.b])

NextContext ==
    \/ ApplyLookupContext1
    \/ ApplyLookupContext2
    \/ ApplyLookupChainedContext1
    \/ ApplyLookupChainedContext2
    \/ WouldApplyLookupContext1
    \/ WouldApplyLookupContext2
    \/ WouldApplyLookupChainedContext1
    \/ WouldApplyLookupChainedContext2

SpecContext == InitContext /\ [][NextContext]_vars

\* the coverage index (format 1) or the class of the first glyph (format 2)
\* points past the end of the list of rule sets
pastEnd ==
    IF cl.data.format = 1 THEN cl.index >= Len(cl.data.ruleSets)
    ELSE cl.data.classDef[cl.c.glyphs[1]] >= Len(cl.data.ruleSets)

\* C19: a context or chained context lookup of format 1 or 2 whose coverage
\* index or class value points past the end of the list of rule sets reports
\* no match, on the apply path and on the would-apply path, leaves the
\* buffer as it was and does not panic
C19_PastEndIgnored ==
    (cl.pc = "done" /\ pastEnd) => (cl.res = "false" /\ cl.b = cl.b0)

\* the same on the apply path alone
C19_PastEndIgnoredOnApply ==
    (cl.pc = "done" /\ pastEnd /\ cl.path = "apply") =>
        (cl.res = "false" /\ cl.b = cl.b0)

\* a format 2 lookup was applied to a glyph whose class has no rule set,
\* although other classes have rule sets that match
C19_Witness ==
    /\ cl.pc = "done" /\ pastEnd /\ cl.path = "apply"
    /\ cl.data.format = 2 /\ Len(cl.data.ruleSets) > 0
    /\ \E i \in 1..Len(cl.data.ruleSets) :
          applyRuleSet(cl.b0, cl.data.ruleSets[i], cl.data).res = "true"

(***************************************************************************)
(* ligateInput.  A glyph is [glyph, glyphProps, ligProps]: glyphProps is    *)
(* the set of the bits BaseGlyph, Ligature, Mark, Substituted, Ligated and  *)
(* Multiplied; ligProps is the byte (id << 5) | isLigBase | low, a number   *)
(* in 0..255.  The buffer is [info, out, idx, haveOutput, serial].          *)
(*  Clusters and the general category are not part of a glyph      *)
(* here, so mergeClusters and setGeneralCategory have nothing to change.    *)
(***************************************************************************)
MaxComponents == 3

\* the ligature id is what is left of a byte above the low five bits
ligIDValues == 8

ligCompValues == 16

uint8 == 256

preserve == {"Substituted", "Ligated", "Multiplied"}

isLigBase == 16

\* ligID << 5 is ligID * ligIDShift, cut to a byte
ligIDShift == 32

getLigID(info) == info.ligProps \div ligIDShift

ligatedInternal(info) == (info.ligProps \div isLigBase) % 2 = 1

getLigComp(info) == IF ligatedInternal(info) THEN 0 ELSE info.ligProps % ligCompValues

getLigNumComps(info) ==
    IF "Ligature" \in info.glyphProps /\ ligatedInternal(info)
    THEN info.ligProps % ligCompValues ELSE 1

\* setLigPropsForMark on a ligProps wide enough for any ligature id
setLigPropsForMarkWide(info, ligID, ligComp) ==
    [info EXCEPT !.ligProps = (ligID * ligIDShift) + (ligComp % ligCompValues)]

\* the three fields do not overlap, so | is +
setLigPropsForMark(info, ligID, ligComp) ==
    [info EXCEPT !.ligProps = ((ligID * ligIDShift) % uint8) + (ligComp % ligCompValues)]

setLigPropsForLigature(info, ligID, ligNumComps) ==
    [info EXCEPT !.ligProps = ((ligID * ligIDShift) % uint8) + isLigBase
                              + (ligNumComps % ligCompValues)]

isMark(info) == "Mark" \in info.glyphProps

isBaseGlyph(info) == "BaseGlyph" \in info.glyphProps

\* the glyph properties of the glyph that replaces info; gdef is
\* [hasGlyphClasses, props], props the class the font gives the new glyph
setGlyphClassExt(info, gdef, classGuess, ligature, component) ==
    LET p1 == info.glyphProps \cup {"Substituted"}
        p2 == IF ligature THEN (p1 \cup {"Ligated"}) \ {"Multiplied"} ELSE p1
        p3 == IF component THEN p2 \cup {"Multiplied"} ELSE p2
    IN [info EXCEPT !.glyphProps =
            IF gdef.hasGlyphClasses THEN (p3 \cap preserve) \cup gdef.props
            ELSE IF classGuess # {} THEN (p3 \cap preserve) \cup classGuess
            ELSE p3]

skipGlyph(b) == [b EXCEPT !.idx = b.idx + 1]

\* the next serial number of the buffer that is not 0 as a ligature id
allocateLigID(b) ==
    LET s1 == b.serial + 1
        s2 == IF s1 % ligIDValues = 0 THEN s1 + 1 ELSE s1
    IN [b |-> [b EXCEPT !.serial = s2], ligID |-> s2 % ligIDValues]

\* a classification that takes every sequence of marks and base glyphs for
\* a base ligature
classifyMarksOrBase(b, count, matchPositions) ==
    LET comps == {b.info[matchPositions[i] + 1] : i \in 1..count}
    IN [isBaseLigature |-> \A info \in comps : isMark(info) \/ isBaseGlyph(info),
        isMarkLigature |-> \A info \in comps : isMark(info)]

\* isBaseLigature and isMarkLigature
classify(b, count, matchPositions) ==
    LET first == b.info[matchPositions[1] + 1]
        restMarks == \A i \in 2..count : isMark(b.info[matchPositions[i] + 1])
    IN [isBaseLigature |-> isBaseGlyph(first) /\ restMarks,
        isMarkLigature |-> isMark(first) /\ restMarks]

newLigComp(thisComp, lastNumComponents, componentsSoFar) ==
    (componentsSoFar - lastNumComponents + uint8
     + Min(IF thisComp = 0 THEN lastNumComponents ELSE thisComp, lastNumComponents))
    % uint8

\* the glyphs before the next component go to the output, as marks of the
\* new ligature when it is a true ligature
RECURSIVE moveMarks(_, _, _, _, _, _)
moveMarks(b, target, isLigature, ligID, lastNumComponents, componentsSoFar) ==
    IF b.idx >= target THEN b
    ELSE LET info == setLigPropsForMark(cur(b), ligID,
                        newLigComp(getLigComp(cur(b)), lastNumComponents, componentsSoFar))
             b1 == IF isLigature THEN [b EXCEPT !.info[b.idx + 1] = info] ELSE b
         IN moveMarks(nextGlyph(b1), target, isLigature, ligID,
                      lastNumComponents, componentsSoFar)

\* the loop over the components after the first; st is
\* [b, lastLigID, lastNumComponents, componentsSoFar]
RECURSIVE ligateComponents(_, _, _, _, _, _)
ligateComponents(st, i, count, matchPositions, isLigature, ligID) ==
    IF i >= count THEN st
    ELSE LET b1 == moveMarks(st.b, matchPositions[i + 1], isLigature, ligID,
                             st.lastNumComponents, st.componentsSoFar)
             n == getLigNumComps(cur(b1))
         IN ligateComponents([b |-> skipGlyph(b1), lastLigID |-> getLigID(cur(b1)),
                              lastNumComponents |-> n,
                              componentsSoFar |-> (st.componentsSoFar + n) % uint8],
                             i + 1, count, matchPositions, isLigature, ligID)

\* re-adjust the components of the marks that follow
RECURSIVE readjustMarks(_, _, _, _)
readjustMarks(st, i, isLigature, ligID) ==
    IF i > Len(st.b.info) THEN st.b
    ELSE IF st.lastLigID # getLigID(st.b.info[i]) THEN st.b
    ELSE IF getLigComp(st.b.info[i]) = 0 THEN st.b
    ELSE readjustMarks(
            [st EXCEPT !.b.info[i] =
                setLigPropsForMark(st.b.info[i], ligID,
                    newLigComp(getLigComp(st.b.info[i]), st.lastNumComponents,
                               st.componentsSoFar))],
            i + 1, isLigature, ligID)

ligateInput(b, count, matchPositions, ligGlyph, totalComponentCount, gdef) ==
    LET k == classify(b, count, matchPositions)
        isLigature == ~k.isBaseLigature /\ ~k.isMarkLigature
        a == IF isLigature THEN allocateLigID(b) ELSE [b |-> b, ligID |-> 0]
        klass == IF isLigature THEN {"Ligature"} ELSE {}
        c0 == cur(a.b)
        c1 == IF isLigature
              THEN setLigPropsForLigature(c0, a.ligID, totalComponentCount) ELSE c0
        c2 == [setGlyphClassExt(c1, gdef, klass, TRUE, FALSE) EXCEPT !.glyph = ligGlyph]
        st == ligateComponents(
                 [b |-> replaceGlyphs(a.b, <<c2>>), lastLigID |-> getLigID(c0),
                  lastNumComponents |-> getLigNumComps(c0),
                  componentsSoFar |-> getLigNumComps(c0)],
                 1, count, matchPositions, isLigature, a.ligID)
    IN [b |-> IF ~k.isMarkLigature /\ st.lastLigID # 0
              THEN readjustMarks(st, st.b.idx + 1, isLigature, a.ligID)
              ELSE st.b,
        isBaseLigature |-> k.isBaseLigature, isMarkLigature |-> k.isMarkLigature,
        isLigature |-> isLigature, ligID |-> a.ligID]

\* what matchInput asks of the ligature ids and components of the glyphs it
\* matches, with nothing in the output before the first of them
ligaturable(info, matchPositions) ==
    LET first == info[matchPositions[1] + 1]
    IN \A i \in 2..Len(matchPositions) :
          LET this == info[matchPositions[i] + 1]
          IN IF getLigID(first) # 0 /\ getLigComp(first) # 0
             THEN getLigID(this) = getLigID(first) /\ getLigComp(this) = getLigComp(first)
             ELSE ~(getLigID(this) # 0 /\ getLigComp(this) # 0
                    /\ getLigID(this) # getLigID(first))

ligInfo(props, ligProps) == [glyph |-> 1, glyphProps |-> props, ligProps |-> ligProps]

LigGlyphs ==
    LET none == 0
    IN {ligInfo({"BaseGlyph"}, none), ligInfo({"Mark"}, none), ligInfo({}, none),
        ligInfo({"Mark"}, ligIDShift + 1),
        ligInfo({"Ligature", "Substituted", "Ligated"}, ligIDShift + isLigBase + 2)}

\* the match positions: the first glyph and some of the glyphs after it, in
\* order
MatchPositions ==
    {mp \in UNION {[1..n -> 0..(MaxComponents - 1)] : n \in 2..MaxComponents} :
        mp[1] = 0 /\ \A i \in 2..Len(mp) : mp[i - 1] < mp[i]}

InitLigate ==
    /\ font = fontTiny
    /\ plan = newPlan(font)
    /\ buffers = <<>>
    /\ shapers = <<>>
    /\ hist = noHist
    /\ pf = idlePf
    /\ mb = idleMb
    /\ ro = idleRo
    /\ sd = idleSd
    /\ it = idleIt
    /\ cl = idleCl
    /\ lp = idleLp
    /\ aat = idleAat
    /\ gp = idleGp
    /\ vr = idleVr
    /\ \E info \in [1..MaxComponents -> LigGlyphs], mp \in MatchPositions,
          serial \in {0, ligIDValues - 1}, hasGlyphClasses \in BOOLEAN :
          /\ ligaturable(info, mp)
          /\ \A i \in 1..mp[Len(mp)] : i \in Range(mp) \/ isMark(info[i + 1])
          /\ lg = [pc |-> "matched", matchPositions |-> mp,
                   gdef |-> [hasGlyphClasses |-> hasGlyphClasses, props |-> {"Ligature"}],
                   b |-> [info |-> info, out |-> <<>>, idx |-> 0,
                          haveOutput |-> TRUE, serial |-> serial]]

\* totalComponentCount as matchInput adds it up
matchedComponentCount(b, matchPositions) ==
    LET RECURSIVE sum(_)
        sum(i) == IF i = 0 THEN 0
                  ELSE (sum(i - 1) + getLigNumComps(b.info[matchPositions[i] + 1])) % uint8
    IN sum(Len(matchPositions))

LigateInput ==
    /\ lg.pc = "matched"
    /\ lg' = [pc |-> "ligated", matchPositions |-> lg.matchPositions, gdef |-> lg.gdef,
              b0 |-> lg.b,
              res |-> ligateInput(lg.b, Len(lg.matchPositions), lg.matchPositions, 7,
                                  matchedComponentCount(lg.b, lg.matchPositions), lg.gdef)]
    /\ UNCHANGED <<font, plan, buffers, shapers, hist, pf, mb, ro, sd, it, cl, lp, aat, gp, vr>>

NextLigate == LigateInput

SpecLigate == InitLigate /\ [][NextLigate]_vars

\* the components of the ligature that was formed
components == {lg.b0.info[lg.matchPositions[i] + 1] : i \in 1..Len(lg.matchPositions)}

\* what ligateInput took the sequence for
ligatureKind ==
    IF lg.res.isMarkLigature THEN "mark"
    ELSE IF lg.res.isBaseLigature THEN "base" ELSE "ligature"

\* a new ligature id was allocated
allocated == lg.res.b.serial # lg.b0.serial

\* C20 as stated: the sequence is a mark ligature when all components are
\* marks, a base ligature when all components are marks or base glyphs, and
\* a true ligature otherwise; a ligature id is allocated exactly for a true
\* ligature
C20_AllMarksOrBase ==
    lg.pc = "ligated" =>
        /\ ligatureKind =
              (IF \A info \in components : isMark(info) THEN "mark"
               ELSE IF \A info \in components : isMark(info) \/ isBaseGlyph(info)
               THEN "base" ELSE "ligature")
        /\ allocated = (ligatureKind = "ligature")

\* C20 amended: the sequence is a mark ligature when all components are
\* marks, a base ligature when the first component is a base glyph and all
\* the others are marks, and a true ligature otherwise; a ligature id is
\* allocated exactly for a true ligature, which then carries that id, not 0,
\* as a ligature base, and any other ligature keeps the ligature properties
\* of its first component
C20_BaseThenMarks ==
    lg.pc = "ligated" =>
        LET first == lg.b0.info[1]
            rest == {lg.b0.info[lg.matchPositions[i] + 1] : i \in 2..Len(lg.matchPositions)}
            lig == lg.res.b.out[1]
        IN /\ ligatureKind =
                 (IF \A info \in components : isMark(info) THEN "mark"
                  ELSE IF isBaseGlyph(first) /\ \A info \in rest : isMark(info)
                  THEN "base" ELSE "ligature")
           /\ allocated = (ligatureKind = "ligature")
           /\ ligatureKind = "ligature" =>
                 /\ lg.res.ligID # 0
                 /\ lg.res.ligID = lg.res.b.serial % ligIDValues
                 /\ getLigID(lig) = lg.res.ligID /\ ligatedInternal(lig)
           /\ ligatureKind # "ligature" => lig.ligProps = first.ligProps

\* two base glyphs were made a true ligature with a new ligature id
C20_Witness ==
    /\ lg.pc = "ligated"
    /\ \A info \in components : isBaseGlyph(info)
    /\ Len(lg.matchPositions) >= 2
    /\ ligatureKind = "ligature" /\ allocated

\* a base glyph and a mark were made a base ligature
C20_WitnessBase ==
    /\ lg.pc = "ligated"
    /\ ligatureKind = "base" /\ ~allocated
    /\ \E info \in components : isMark(info)

(***************************************************************************)
(* The fields of ligProps: a ligature id and a value are stored in a glyph  *)
(* and read back.                                                           *)
(***************************************************************************)
MaxLigID == 31

InitLigProps ==
    /\ font = fontTiny
    /\ plan = newPlan(font)
    /\ buffers = <<>>
    /\ shapers = <<>>
    /\ hist = noHist
    /\ pf = idlePf
    /\ mb = idleMb
    /\ ro = idleRo
    /\ sd = idleSd
    /\ it = idleIt
    /\ cl = idleCl
    /\ lg = idleLg
    /\ aat = idleAat
    /\ gp = idleGp
    /\ vr = idleVr
    /\ \E ligID \in 0..MaxLigID, value \in 0..(ligCompValues - 1),
          props \in {{"Mark"}, {"Ligature"}}, old \in {0, uint8 - 1} :
          lp = [pc |-> "new", ligID |-> ligID, value |-> value,
                info |-> ligInfo(props, old)]

SetLigPropsForMark ==
    /\ lp.pc = "new"
    /\ lp' = [lp EXCEPT !.pc = "mark",
                        !.info = setLigPropsForMark(lp.info, lp.ligID, lp.value)]
    /\ UNCHANGED <<font, plan, buffers, shapers, hist, pf, mb, ro, sd, it, cl, lg, aat, gp, vr>>

SetLigPropsForLigature ==
    /\ lp.pc = "new"
    /\ lp' = [lp EXCEPT !.pc = "ligature",
                        !.info = setLigPropsForLigature(lp.info, lp.ligID, lp.value)]
    /\ UNCHANGED <<font, plan, buffers, shapers, hist, pf, mb, ro, sd, it, cl, lg, aat, gp, vr>>

NextLigProps == SetLigPropsForMark \/ SetLigPropsForLigature

SpecLigProps == InitLigProps /\ [][NextLigProps]_vars

\* C21 as stated: for every ligature id in 0..31 and every value in 0..15,
\* getLigID returns the id after setLigPropsForMark and after
\* setLigPropsForLigature, and getLigComp returns the value after
\* setLigPropsForMark
C21_FiveBitID ==
    /\ lp.pc \in {"mark", "ligature"} => getLigID(lp.info) = lp.ligID
    /\ lp.pc = "mark" => getLigComp(lp.info) = lp.value

\* C21 amended: ligProps is a byte with a ligature id of three bits above the
\* bit 0x10 and a value of four bits: getLigID returns the id modulo 8,
\* which is the id for every id in 0..7, after setLigPropsForMark and after
\* setLigPropsForLigature; after setLigPropsForMark the glyph is no ligature
\* base and getLigComp returns the value; after setLigPropsForLigature the
\* glyph is a ligature base, getLigComp returns 0 and, for a glyph of class
\* Ligature, getLigNumComps returns the value
C21_ThreeBitID ==
    /\ lp.pc \in {"mark", "ligature"} =>
          /\ getLigID(lp.info) = lp.ligID % ligIDValues
          /\ lp.ligID < ligIDValues => getLigID(lp.info) = lp.ligID
          /\ lp.info.ligProps \in 0..(uint8 - 1)
    /\ lp.pc = "mark" =>
          /\ ~ligatedInternal(lp.info)
          /\ getLigComp(lp.info) = lp.value
    /\ lp.pc = "ligature" =>
          /\ ligatedInternal(lp.info)
          /\ getLigComp(lp.info) = 0
          /\ "Ligature" \in lp.info.glyphProps => getLigNumComps(lp.info) = lp.value

\* the largest ligature id that is read back and the largest value were
\* stored for a mark
C21_Witness ==
    /\ lp.pc = "mark"
    /\ lp.ligID = ligIDValues - 1 /\ lp.value = ligCompValues - 1
    /\ getLigID(lp.info) = lp.ligID /\ getLigComp(lp.info) = lp.value

(***************************************************************************)
(* stateTableDriver.drive.  The entry of a transition is any entry a state  *)
(* table can hold, chosen anew at every turn of the loop, so the states and *)
(* the classes of the machine are left out: the turns of every state table  *)
(* on every buffer are among the turns followed here.  A driver context is  *)
(* in place (rearrangement, contextual, kerx: the transition leaves the     *)
(* cursor and the length of the buffer alone) or an insertion.  An entry is *)
(* [dontAdvance, setMark, current, currentCount, currentBefore, marked,     *)
(* markedCount, markedBefore]; current and marked say that the insertion    *)
(* index is not 0xFFFF, and an insertion of no glyph is left out.  There is *)
(* one range of features, and the glyph flags are not part of the buffer.   *)
(***************************************************************************)
MaxInsert == 1

\* maxOps at the start of drive, when it is not used up yet
MaxAatOps == 2

\* the glyph an insertion inserts
insertedGlyph == 9

copyGlyph(b) == [b EXCEPT !.out = Append(b.out, b.info[b.idx + 1])]

\* replaceGlyphs(0, nil, glyphs): put glyphs to the output and stay
outputGlyphs(b, glyphs) == [b EXCEPT !.out = b.out \o glyphs]

\* copy, insert count glyphs and skip: the part the two insertions share
insertGlyphs(b, count, before) ==
    LET after == b.idx < Len(b.info) /\ ~before
        b1 == IF after THEN copyGlyph(b) ELSE b
        b2 == outputGlyphs(b1, [j \in 1..count |-> insertedGlyph])
    IN IF after THEN skipGlyph(b2) ELSE b2

\* driverContextInsertion.transition; dc is [mark]
insertionTransition(dc, b, entry) ==
    LET markLoc == Len(b.out)
        bm == [b EXCEPT !.maxOps = b.maxOps - entry.markedCount]
        b1 == IF ~entry.marked THEN b
              ELSE IF bm.maxOps <= 0 THEN bm
              ELSE moveTo(insertGlyphs(moveTo(bm, dc.mark), entry.markedCount,
                                       entry.markedBefore),
                          Len(b.out) + entry.markedCount)
        dc1 == IF entry.setMark THEN [dc EXCEPT !.mark = markLoc] ELSE dc
        bc == [b1 EXCEPT !.maxOps = b1.maxOps - entry.currentCount]
    IN IF entry.marked /\ bm.maxOps <= 0 THEN [dc |-> dc, b |-> bm]
       ELSE IF ~entry.current THEN [dc |-> dc1, b |-> b1]
       ELSE IF b1.maxOps <= 0 THEN [dc |-> dc1, b |-> bc]
       ELSE [dc |-> dc1,
             b |-> moveTo(insertGlyphs(bc, entry.currentCount, entry.currentBefore),
                          IF entry.dontAdvance THEN Len(b1.out)
                          ELSE Len(b1.out) + entry.currentCount)]

(***************************************************************************)
(* The transition of the morx ligature subtable.  dc is [matchLength,       *)
(* matchPositions, stored]; matchPositions is the array of maxContextLength *)
(* positions in the output, stored the ligatures the transition has formed. *)
(* An entry is [dontAdvance, setComponent, offset, actions], an action      *)
(* [store, last, offset].                                                   *)
(***************************************************************************)
MaxLigLen == 3
MaxActions == 2
deletedGlyph == 65535

\* the component table, from index 0, and the ligature table of the font
Components == <<0, 0, 1>>

Ligatures == <<10, 11, 12>>

\* all the glyphs of the buffer: the output and what has not been read
glyphsOf(b) ==
    IF b.haveOutput THEN b.out \o SubSeq(b.info, b.idx + 1, Len(b.info)) ELSE b.info

replaceGlyphIndex(b, g) == [b EXCEPT !.out = Append(b.out, g), !.idx = b.idx + 1]

matchPosition(dc, i) == dc.matchPositions[(i % maxContextLength) + 1]

RECURSIVE deleteComponents(_, _, _)
deleteComponents(dc, b, cursor) ==
    IF dc.matchLength - 1 > cursor
    THEN LET dc1 == [dc EXCEPT !.matchLength = dc.matchLength - 1]
             b1 == replaceGlyphIndex(moveTo(b, matchPosition(dc1, dc1.matchLength)),
                                     deletedGlyph)
         IN deleteComponents(dc1, b1, cursor)
    ELSE [dc |-> dc, b |-> b]

\* the components after the first are taken from the stack and left as they are
ligatureStoreKeep(dc, b, cursor, lig) ==
    LET b1 == replaceGlyphIndex(b, lig)
        ligEnd == matchPosition(dc, dc.matchLength - 1) + 1
        b2 == moveTo(b1, ligEnd)
    IN [dc |-> [dc EXCEPT !.matchLength = cursor + 1,
                          !.stored = Append(@,
                             [pos |-> matchPosition(dc, cursor),
                              later |-> {matchPosition(dc, k) :
                                            k \in (cursor + 1)..(dc.matchLength - 1)},
                              lig |-> lig, before |-> glyphsOf(b),
                              after |-> glyphsOf(b2)])],
        b |-> b2]

\* an action with Store or Last: the ligature at the cursor, the deleted
\* glyph at the components above it
ligatureStore(dc, b, cursor, lig) ==
    LET b1 == replaceGlyphIndex(b, lig)
        ligEnd == matchPosition(dc, dc.matchLength - 1) + 1
        t == deleteComponents(dc, b1, cursor)
        b2 == moveTo(t.b, ligEnd)
    IN [dc |-> [t.dc EXCEPT !.stored = Append(@,
                             [pos |-> matchPosition(dc, cursor),
                              later |-> {matchPosition(dc, k) :
                                            k \in (cursor + 1)..(dc.matchLength - 1)},
                              lig |-> lig, before |-> glyphsOf(b),
                              after |-> glyphsOf(b2)])],
        b |-> b2]

\* the loop over the actions of an entry
RECURSIVE ligatureActions(_, _, _, _, _)
ligatureActions(dc, b, cursor, actionData, ligatureIdx) ==
    IF cursor = 0 THEN [dc |-> [dc EXCEPT !.matchLength = 0], b |-> b]
    ELSE LET c == cursor - 1
             b1 == moveTo(b, matchPosition(dc, c))
         IN IF actionData = <<>> THEN [dc |-> dc, b |-> b1]
            ELSE LET action == Head(actionData)
                     componentIdx == b1.info[b1.idx + 1] + action.offset
                 IN IF componentIdx >= Len(Components) THEN [dc |-> dc, b |-> b1]
                    ELSE LET idx2 == ligatureIdx + Components[componentIdx + 1]
                         IN IF action.store \/ action.last
                            THEN IF idx2 >= Len(Ligatures) THEN [dc |-> dc, b |-> b1]
                                 ELSE LET t == ligatureStore(dc, b1, c, Ligatures[idx2 + 1])
                                      IN IF action.last THEN t
                                         ELSE ligatureActions(t.dc, t.b, c,
                                                              Tail(actionData), idx2)
                            ELSE ligatureActions(dc, b1, c, Tail(actionData), idx2)

ligatureTransition(dc, b, entry) ==
    LET dc0 == [dc EXCEPT !.stored = <<>>]
        ml == IF dc0.matchLength # 0
                 /\ matchPosition(dc0, dc0.matchLength - 1) = Len(b.out)
              THEN dc0.matchLength - 1 ELSE dc0.matchLength
        dc1 == IF entry.setComponent
               THEN [dc0 EXCEPT !.matchPositions[(ml % maxContextLength) + 1] = Len(b.out),
                                !.matchLength = ml + 1]
               ELSE dc0
    IN IF ~entry.offset THEN [dc |-> dc1, b |-> b]
       ELSE IF dc1.matchLength = 0 THEN [dc |-> dc1, b |-> b]
       ELSE IF b.idx >= Len(b.info) THEN [dc |-> dc1, b |-> b]
       ELSE LET t == ligatureActions(dc1, b, dc1.matchLength, entry.actions, 0)
            IN [dc |-> t.dc, b |-> moveTo(t.b, Len(b.out))]

aatLayoutRemoveDeletedGlyphs(b) ==
    [b EXCEPT !.info = SelectSeq(b.info, LAMBDA g : g # deletedGlyph)]

(***************************************************************************)
(* The transition of the kerx subtable of type 1.  dc is [stack, depth,     *)
(* crossStream] and, for the record, what the last transition has done:     *)
(* acted, depth0, actions, popped.  An entry is [dontAdvance, push, reset,  *)
(* actionable, actions], actions the values from the index of the entry to  *)
(* the end of the value table.  The buffer has a position and a mask bit    *)
(* for every glyph.                                                         *)
(***************************************************************************)
MaxKernValues == 2
kerx1StackSize == 8
kernReset == 0 - 32768
attachTypeNone == 0
attachTypeMark == 1
attachTypeCursive == 2

emScale(v) == (v * 2000) \div 1000

\* every value ends the list
kerx1LastAny(v) == TRUE

\* "The end of the list is marked by an odd value..."
kerx1Last(v) == v % 2 # 0

kerx1Apply(dc, b, idx, v) ==
    LET o == b.pos[idx + 1]
        masked == b.mask[idx + 1]
        o1 == IF b.horizontal
              THEN IF dc.crossStream
                   THEN IF v = kernReset
                        THEN [o EXCEPT !.attachType = attachTypeNone, !.attachChain = 0,
                                       !.yOffset = 0]
                        ELSE IF o.attachType # 0
                        THEN [o EXCEPT !.yOffset = @ + emScale(v)]
                        ELSE o
                   ELSE IF masked
                   THEN [o EXCEPT !.xAdvance = @ + emScale(v), !.xOffset = @ + emScale(v)]
                   ELSE o
              ELSE IF dc.crossStream
                   THEN IF v = kernReset
                        THEN [o EXCEPT !.attachType = attachTypeNone, !.attachChain = 0,
                                       !.xOffset = 0]
                        ELSE IF o.attachType # 0
                        THEN [o EXCEPT !.xOffset = @ + emScale(v)]
                        ELSE o
                   ELSE IF masked
                   THEN [o EXCEPT !.yAdvance = @ + emScale(v), !.yOffset = @ + emScale(v)]
                   ELSE o
        attached == dc.crossStream /\ v # kernReset /\ o.attachType # 0
    IN [b EXCEPT !.pos[idx + 1] = o1,
                 !.hasGPOSAttachment = @ \/ attached]

\* the loop over the stack
RECURSIVE kerx1Actions(_, _, _, _)
kerx1Actions(dc, b, actions, last) ==
    IF last \/ dc.depth = 0 THEN [dc |-> dc, b |-> b]
    ELSE LET idx == dc.stack[dc.depth]
             v == Head(actions)
             inside == idx < Len(b.pos)
             dc1 == [dc EXCEPT !.depth = dc.depth - 1,
                               !.popped = Append(@, [idx |-> idx, v |-> v,
                                                     applied |-> inside])]
         IN IF ~inside THEN kerx1Actions(dc1, b, Tail(actions), last)
            ELSE kerx1Actions(dc1, kerx1Apply(dc, b, idx, v - (v % 2)),
                              Tail(actions), kerx1Last(v))

kerx1Transition(dc, b, entry) ==
    LET dcR == IF entry.reset THEN [dc EXCEPT !.depth = 0] ELSE dc
        dcP == IF ~entry.push THEN dcR
               ELSE IF dcR.depth < Len(dcR.stack)
               THEN [dcR EXCEPT !.stack[dcR.depth + 1] = b.idx, !.depth = dcR.depth + 1]
               ELSE [dcR EXCEPT !.depth = 0]
        acts == entry.actionable /\ dcP.depth # 0
        dc0 == [dcP EXCEPT !.acted = acts, !.depth0 = dcP.depth,
                           !.full = entry.push /\ dcR.depth = Len(dcR.stack),
                           !.actions = entry.actions, !.popped = <<>>]
    IN IF ~acts THEN [dc |-> dc0, b |-> b]
       ELSE IF Len(entry.actions) < dc0.depth
       THEN [dc |-> [dc0 EXCEPT !.depth = 0], b |-> b]
       ELSE kerx1Actions(dc0, b, entry.actions, FALSE)

inPlace(kind) == kind \in {"inPlace", "kerx1"}

transition(kind, dc, b, entry) ==
    IF kind = "kerx1" THEN kerx1Transition(dc, b, entry)
    ELSE IF inPlace(kind) THEN [dc |-> dc, b |-> b]
    ELSE IF kind = "ligature" THEN ligatureTransition(dc, b, entry)
    ELSE insertionTransition(dc, b, entry)

\* the lists of actions; the loop reads no action after one with Last
LigatureActions ==
    UNION {{a \in [1..n -> [store : BOOLEAN, last : BOOLEAN, offset : {0}]] :
               \A i \in 1..(n - 1) : ~a[i].last} : n \in 1..MaxActions}

\* the value lists: even and odd values and, at the head, the value that
\* takes a glyph off its attachment
KernValues ==
    UNION {{a \in [1..n -> {2, 3, kernReset}] : \A i \in 2..n : a[i] # kernReset} :
              n \in 0..MaxKernValues}

AatEntries(kind) ==
    IF kind = "kerx1"
    THEN {e \in [dontAdvance : BOOLEAN, push : BOOLEAN, reset : BOOLEAN,
                 actionable : BOOLEAN, actions : KernValues] :
             ~e.actionable => e.actions = <<>>}
    ELSE IF kind = "ligature"
    THEN {e \in [dontAdvance : BOOLEAN, setComponent : BOOLEAN, offset : BOOLEAN,
                 actions : LigatureActions \cup {<<>>}] :
             e.offset = (e.actions # <<>>)}
    ELSE IF inPlace(kind)
    THEN {[dontAdvance |-> d, setMark |-> FALSE, current |-> FALSE, currentCount |-> 0,
           currentBefore |-> FALSE, marked |-> FALSE, markedCount |-> 0,
           markedBefore |-> FALSE] : d \in BOOLEAN}
    ELSE {e \in [dontAdvance : BOOLEAN, setMark : BOOLEAN,
                 current : BOOLEAN, currentCount : 0..MaxInsert, currentBefore : BOOLEAN,
                 marked : BOOLEAN, markedCount : 0..MaxInsert, markedBefore : BOOLEAN] :
             /\ e.current = (e.currentCount > 0) /\ (e.currentBefore => e.current)
             /\ e.marked = (e.markedCount > 0) /\ (e.markedBefore => e.marked)}

AatInputs == {<<1>>, <<1, 2>>}

InitAat ==
    /\ font = fontTiny
    /\ plan = newPlan(font)
    /\ buffers = <<>>
    /\ shapers = <<>>
    /\ hist = noHist
    /\ pf = idlePf
    /\ mb = idleMb
    /\ ro = idleRo
    /\ sd = idleSd
    /\ it = idleIt
    /\ cl = idleCl
    /\ lg = idleLg
    /\ lp = idleLp
    /\ gp = idleGp
    /\ vr = idleVr
    /\ \E in \in AatInputs, kind \in {"inPlace", "insertion"}, used \in BOOLEAN :
          aat = [pc |-> "new", kind |-> kind, dc |-> [mark |-> 0],
                 b |-> [newBuffer(in) EXCEPT
                          !.maxOps = IF used THEN 0 ELSE MaxAatOps],
                 dontAdvance |-> FALSE, forced |-> 0]

\* the start of drive
DriveBegin ==
    /\ aat.pc = "new"
    /\ aat' = [aat EXCEPT !.pc = "drive",
                          !.b = IF inPlace(aat.kind) THEN [aat.b EXCEPT !.idx = 0]
                                ELSE clearOutput(aat.b)]
    /\ UNCHANGED <<font, plan, buffers, shapers, hist, pf, mb, ro, sd, it, cl, lg, lp, gp, vr>>

\* a turn of the loop of drive that goes on without an advance however low
\* maxOps is
DriveNoCap ==
    /\ aat.pc = "drive"
    /\ \E entry \in AatEntries(aat.kind) :
          LET t == transition(aat.kind, aat.dc, aat.b, entry)
              b1 == t.b
          IN IF b1.idx = Len(b1.info)
             THEN aat' = [aat EXCEPT !.pc = "done", !.dc = t.dc, !.dontAdvance = entry.dontAdvance,
                                     !.b = IF inPlace(aat.kind) THEN b1
                                           ELSE swapBuffers(b1)]
             ELSE aat' = [aat EXCEPT
                             !.dc = t.dc, !.dontAdvance = entry.dontAdvance,
                             !.b = IF ~entry.dontAdvance THEN nextGlyph(b1)
                                   ELSE [b1 EXCEPT !.maxOps = Max(b1.maxOps - 1, 0 - uint8)]]
    /\ UNCHANGED <<font, plan, buffers, shapers, hist, pf, mb, ro, sd, it, cl, lg, lp, gp, vr>>

\* one turn of the loop of drive: the transition, the test for the end of
\* the buffer and the advance
Drive ==
    /\ aat.pc = "drive"
    /\ \E entry \in AatEntries(aat.kind) :
          LET t == transition(aat.kind, aat.dc, aat.b, entry)
              b1 == t.b
          IN IF b1.idx = Len(b1.info)
             THEN aat' = [aat EXCEPT !.pc = "done", !.dc = t.dc, !.dontAdvance = entry.dontAdvance,
                                     !.b = IF inPlace(aat.kind) THEN b1
                                           ELSE swapBuffers(b1)]
             ELSE aat' = [aat EXCEPT
                             !.dc = t.dc, !.dontAdvance = entry.dontAdvance,
                             !.forced = IF entry.dontAdvance /\ b1.maxOps <= 0
                                        THEN 1 ELSE aat.forced,
                             !.b = IF ~entry.dontAdvance THEN nextGlyph(b1)
                                   ELSE IF b1.maxOps <= 0
                                   THEN [nextGlyph(b1) EXCEPT !.maxOps = b1.maxOps - 2]
                                   ELSE [b1 EXCEPT !.maxOps = b1.maxOps - 1]]
    /\ UNCHANGED <<font, plan, buffers, shapers, hist, pf, mb, ro, sd, it, cl, lg, lp, gp, vr>>

NextAat == DriveBegin \/ Drive

SpecAat == InitAat /\ [][NextAat]_vars

\* drive is a loop of one thread that nothing holds up
SpecAatLive == SpecAat /\ WF_vars(NextAat)

\* the glyphs the driver has still to go through
aatRemaining(a) == Len(a.b.info) - a.b.idx

\* C22: drive comes to its end on every buffer whatever the entries of the
\* state table are; a turn that does not end the loop leaves one glyph less
\* to go through when its entry has no DontAdvance and when maxOps was used
\* up before it
C22_DriveTerminates ==
    /\ <>(aat.pc = "done")
    /\ [][(aat.pc = "drive" /\ aat'.pc = "drive"
           /\ (~aat'.dontAdvance \/ aat.b.maxOps <= 0))
          => aatRemaining(aat') = aatRemaining(aat) - 1]_vars

\* drive has come to its end after maxOps was used up and an entry with
\* DontAdvance had to advance
C22_Witness == aat.pc = "done" /\ aat.forced = 1 /\ aat.dontAdvance

(***************************************************************************)
(* The transition of the morx rearrangement subtable.  The buffer is        *)
(* [info, idx], info a sequence of glyph ids; d is [start, end]; an entry   *)
(* is [markFirst, markLast, verb].  Clusters are not part of the buffer, so *)
(* mergeClusters has nothing to change.                                     *)
(***************************************************************************)
MaxRange == 5

\* mapRearrangement with the nibbles of verb 9 exchanged with those of verb 8
mapRearrangementVerb9 ==
    <<0, 16, 1, 17, 32, 48, 2, 3, 18, 18, 33, 49, 34, 50, 35, 51>>

\* the two nibbles of every verb, 0x00 to 0x33
mapRearrangement ==
    <<0, 16, 1, 17, 32, 48, 2, 3, 18, 19, 33, 49, 34, 50, 35, 51>>

\* copy(info[pos:], src) of Go, pos counted from 0
copyTo(info, pos, src) ==
    [i \in 1..Len(info) |->
        IF i > pos /\ i <= pos + Len(src) THEN src[i - pos] ELSE info[i]]

\* exchange info[i] and info[j], counted from 0
exchange(info, i, j) ==
    [info EXCEPT ![i + 1] = info[j + 1], ![j + 1] = info[i + 1]]

rearrangementTransition(d, b, entry) ==
    LET d1 == [start |-> IF entry.markFirst THEN b.idx ELSE d.start,
               end |-> IF entry.markLast THEN Min(b.idx + 1, Len(b.info)) ELSE d.end]
        m == mapRearrangement[entry.verb + 1]
        l == Min(2, m \div 16)
        r == Min(2, m % 16)
        reverseL == m \div 16 = 3
        reverseR == m % 16 = 3
        info == b.info
        bufL == SubSeq(info, d1.start + 1, d1.start + l)
        bufR == SubSeq(info, d1.end - r + 1, d1.end)
        i1 == IF l # r
              THEN copyTo(info, d1.start + r, SubSeq(info, d1.start + l + 1, d1.end - r))
              ELSE info
        i2 == copyTo(i1, d1.start, bufR)
        i3 == copyTo(i2, d1.end - l, bufL)
        i4 == IF reverseL THEN exchange(i3, d1.end - 1, d1.end - 2) ELSE i3
        i5 == IF reverseR THEN exchange(i4, d1.start, d1.start + 1) ELSE i4
    IN IF entry.verb # 0 /\ d1.start < d1.end
          /\ d1.end - d1.start >= l + r /\ d1.end - d1.start <= maxContextLength
       THEN [d |-> d1, b |-> [b EXCEPT !.info = i5]]
       ELSE [d |-> d1, b |-> b]

\* the buffers: the first glyphs of 1, 2, 3, ... and one buffer that is
\* longer than maxContextLength
RearrangeBuffers ==
    {[i \in 1..n |-> i] : n \in 0..MaxRange}
    \cup {[i \in 1..(maxContextLength + 1) |-> i]}

InitRearrange ==
    /\ font = fontTiny
    /\ plan = newPlan(font)
    /\ buffers = <<>>
    /\ shapers = <<>>
    /\ hist = noHist
    /\ pf = idlePf
    /\ mb = idleMb
    /\ ro = idleRo
    /\ sd = idleSd
    /\ it = idleIt
    /\ cl = idleCl
    /\ lg = idleLg
    /\ lp = idleLp
    /\ gp = idleGp
    /\ vr = idleVr
    /\ \E info \in RearrangeBuffers, verb \in 0..15,
          markFirst \in BOOLEAN, markLast \in BOOLEAN :
          \E idx \in 0..Len(info), start \in 0..Len(info), e \in 0..Len(info) :
             /\ Len(info) > MaxRange =>
                   (start <= 1 /\ idx >= Len(info) - 1 /\ e >= Len(info) - 1)
             /\ aat = [pc |-> "rearrange", d |-> [start |-> start, end |-> e],
                       b |-> [info |-> info, idx |-> idx],
                       entry |-> [markFirst |-> markFirst, markLast |-> markLast,
                                  verb |-> verb]]

RearrangementTransition ==
    /\ aat.pc = "rearrange"
    /\ LET t == rearrangementTransition(aat.d, aat.b, aat.entry)
       IN aat' = [pc |-> "rearranged", d |-> t.d, b0 |-> aat.b, b |-> t.b,
                  entry |-> aat.entry]
    /\ UNCHANGED <<font, plan, buffers, shapers, hist, pf, mb, ro, sd, it, cl, lg, lp, gp, vr>>

NextRearrange == RearrangementTransition

SpecRearrange == InitRearrange /\ [][NextRearrange]_vars

\* the table of the verbs as it is written down: the glyphs taken from the
\* start (A, B) and from the end (C, D) of the range, and what stands at the
\* start and at the end of the range afterwards
verbTable ==
    << [from |-> <<>>, to |-> <<>>, front |-> <<>>, back |-> <<>>],
       [from |-> <<"A">>, to |-> <<>>, front |-> <<>>, back |-> <<"A">>],
       [from |-> <<>>, to |-> <<"D">>, front |-> <<"D">>, back |-> <<>>],
       [from |-> <<"A">>, to |-> <<"D">>, front |-> <<"D">>, back |-> <<"A">>],
       [from |-> <<"A", "B">>, to |-> <<>>, front |-> <<>>, back |-> <<"A", "B">>],
       [from |-> <<"A", "B">>, to |-> <<>>, front |-> <<>>, back |-> <<"B", "A">>],
       [from |-> <<>>, to |-> <<"C", "D">>, front |-> <<"C", "D">>, back |-> <<>>],
       [from |-> <<>>, to |-> <<"C", "D">>, front |-> <<"D", "C">>, back |-> <<>>],
       [from |-> <<"A">>, to |-> <<"C", "D">>, front |-> <<"C", "D">>, back |-> <<"A">>],
       [from |-> <<"A">>, to |-> <<"C", "D">>, front |-> <<"D", "C">>, back |-> <<"A">>],
       [from |-> <<"A", "B">>, to |-> <<"D">>, front |-> <<"D">>, back |-> <<"A", "B">>],
       [from |-> <<"A", "B">>, to |-> <<"D">>, front |-> <<"D">>, back |-> <<"B", "A">>],
       [from |-> <<"A", "B">>, to |-> <<"C", "D">>, front |-> <<"C", "D">>, back |-> <<"A", "B">>],
       [from |-> <<"A", "B">>, to |-> <<"C", "D">>, front |-> <<"C", "D">>, back |-> <<"B", "A">>],
       [from |-> <<"A", "B">>, to |-> <<"C", "D">>, front |-> <<"D", "C">>, back |-> <<"A", "B">>],
       [from |-> <<"A", "B">>, to |-> <<"C", "D">>, front |-> <<"D", "C">>, back |-> <<"B", "A">>] >>

\* the buffer the table asks for: the glyphs before the range, the front,
\* the glyphs in between in their order, the back, the glyphs after the range
tabulated(info, start, e, verb) ==
    LET v == verbTable[verb + 1]
        letter(x) == IF x = "A" THEN info[start + 1]
                     ELSE IF x = "B" THEN info[start + 2]
                     ELSE IF x = "C" THEN info[e - 1]
                     ELSE info[e]
    IN SubSeq(info, 1, start)
       \o [j \in 1..Len(v.front) |-> letter(v.front[j])]
       \o SubSeq(info, start + Len(v.from) + 1, e - Len(v.to))
       \o [j \in 1..Len(v.back) |-> letter(v.back[j])]
       \o SubSeq(info, e + 1, Len(info))

\* the marked range of the transition is long enough for its verb
rangeFits ==
    LET v == verbTable[aat.entry.verb + 1]
    IN /\ aat.d.start < aat.d.end
       /\ aat.d.end - aat.d.start >= Len(v.from) + Len(v.to)

\* C23 as stated: when the marked range is at least l + r glyphs long the
\* buffer is the tabulated permutation of the verb, with the glyphs in
\* between in order and those outside of the range untouched; when it is
\* shorter the buffer is unchanged
C23_TabulatedPermutation ==
    aat.pc = "rearranged" =>
        aat.b.info = IF rangeFits
                     THEN tabulated(aat.b0.info, aat.d.start, aat.d.end, aat.entry.verb)
                     ELSE aat.b0.info

\* C23 amended: the same for a marked range of at most maxContextLength
\* glyphs; a longer range is left unchanged
C23_PermutationWithinLimit ==
    aat.pc = "rearranged" =>
        /\ aat.b.info =
              IF rangeFits /\ aat.d.end - aat.d.start <= maxContextLength
              THEN tabulated(aat.b0.info, aat.d.start, aat.d.end, aat.entry.verb)
              ELSE aat.b0.info
        /\ aat.b.idx = aat.b0.idx

\* verb 15 has turned ABxCD into DCxBA
C23_Witness ==
    /\ aat.pc = "rearranged"
    /\ aat.entry.verb = 15 /\ aat.d.start = 0 /\ aat.d.end = 5
    /\ aat.b0.info = <<1, 2, 3, 4, 5>>
    /\ aat.b.info = <<5, 4, 3, 2, 1>>

(***************************************************************************)
(* The ligature subtable under drive, and the removal of the deleted        *)
(* glyphs after it.                                                         *)
(***************************************************************************)
LigInputs == {[i \in 1..n |-> 1 + (i % 2)] : n \in 1..MaxLigLen}

InitLigature ==
    /\ font = fontTiny
    /\ plan = newPlan(font)
    /\ buffers = <<>>
    /\ shapers = <<>>
    /\ hist = noHist
    /\ pf = idlePf
    /\ mb = idleMb
    /\ ro = idleRo
    /\ sd = idleSd
    /\ it = idleIt
    /\ cl = idleCl
    /\ lg = idleLg
    /\ lp = idleLp
    /\ gp = idleGp
    /\ vr = idleVr
    /\ \E in \in LigInputs :
          aat = [pc |-> "new", kind |-> "ligature",
                 dc |-> [matchLength |-> 0,
                         matchPositions |-> [i \in 1..maxContextLength |-> 0],
                         stored |-> <<>>],
                 b |-> [newBuffer(in) EXCEPT !.maxOps = 1],
                 dontAdvance |-> FALSE, forced |-> 0]

RemoveDeletedGlyphs ==
    /\ aat.pc = "done"
    /\ aat' = [aat EXCEPT !.pc = "removed", !.b = aatLayoutRemoveDeletedGlyphs(aat.b)]
    /\ UNCHANGED <<font, plan, buffers, shapers, hist, pf, mb, ro, sd, it, cl, lg, lp, gp, vr>>

NextLigature == DriveBegin \/ Drive \/ RemoveDeletedGlyphs

SpecLigature == InitLigature /\ [][NextLigature]_vars

C24_WitnessRemoved ==
    /\ aat.pc = "removed"
    /\ Len(aat.b.info) = 1
    /\ aat.b.info[1] \in Range(Ligatures)

(***************************************************************************)
(* The kerx subtable of type 1 under drive.  A run starts at the first      *)
(* glyph with a stack of any depth, which is where drive stands after that  *)
(* many turns that have pushed the first glyph and not advanced.            *)
(***************************************************************************)
newPosition(attachType) ==
    [xAdvance |-> 0, yAdvance |-> 0, xOffset |-> 0, yOffset |-> 0,
     attachType |-> attachType, attachChain |-> IF attachType = 0 THEN 0 ELSE 0 - 1]

InitKerx1 ==
    /\ font = fontTiny
    /\ plan = newPlan(font)
    /\ buffers = <<>>
    /\ shapers = <<>>
    /\ hist = noHist
    /\ pf = idlePf
    /\ mb = idleMb
    /\ ro = idleRo
    /\ sd = idleSd
    /\ it = idleIt
    /\ cl = idleCl
    /\ lg = idleLg
    /\ lp = idleLp
    /\ gp = idleGp
    /\ vr = idleVr
    /\ \E in \in AatInputs, crossStream \in BOOLEAN, horizontal \in BOOLEAN,
          depth \in 0..kerx1StackSize :
          aat = [pc |-> "drive", kind |-> "kerx1",
                 dc |-> [stack |-> [i \in 1..kerx1StackSize |-> 0], depth |-> depth,
                         crossStream |-> crossStream, acted |-> FALSE, depth0 |-> 0,
                         full |-> FALSE, actions |-> <<>>, popped |-> <<>>],
                 b |-> [info |-> in, out |-> <<>>, idx |-> 0, haveOutput |-> FALSE,
                        maxOps |-> 0, maxLen |-> maxLenDefault,
                        pos |-> [i \in 1..Len(in) |->
                                    newPosition(IF i = 1 THEN attachTypeNone
                                                ELSE attachTypeMark)],
                        mask |-> [i \in 1..Len(in) |-> TRUE],
                        horizontal |-> horizontal, hasGPOSAttachment |-> FALSE],
                 dontAdvance |-> FALSE, forced |-> 0]

NextKerx1 == Drive

SpecKerx1 == InitKerx1 /\ [][NextKerx1]_vars

\* the entries the last transition has taken from the stack, from the top
\* down, each with the next value of the list
poppedInOrder(dc) ==
    \A k \in 1..Len(dc.popped) :
        /\ dc.popped[k].idx = dc.stack[dc.depth0 - k + 1]
        /\ dc.popped[k].v = dc.actions[k]

\* C25 as stated: the depth of the stack is within 0..8, and on an action
\* the entries are popped and applied one by one until the entry with the
\* odd value has been applied or the stack is empty
C25_PoppedUntilOdd ==
    aat.pc \in {"drive", "done"} =>
        /\ aat.dc.depth \in 0..kerx1StackSize
        /\ aat.dc.acted =>
              LET p == aat.dc.popped
              IN /\ Len(p) >= 1
                 /\ poppedInOrder(aat.dc)
                 /\ \A k \in 1..Len(p) : p[k].applied
                 /\ \A k \in 1..(Len(p) - 1) : p[k].v % 2 = 0
                 /\ p[Len(p)].v % 2 = 1 \/ Len(p) = aat.dc.depth0
                 /\ aat.dc.depth = aat.dc.depth0 - Len(p)

\* C25 amended: the depth of the stack is within 0..8; on an action with
\* fewer values left in the table than the stack is deep the stack is
\* cleared and nothing is applied; otherwise the entries are popped one by
\* one, each with the next value, which is applied when the index of the
\* entry is inside the buffer, until an odd value has been applied or the
\* stack is empty
C25_PoppedUntilOddApplied ==
    aat.pc \in {"drive", "done"} =>
        /\ aat.dc.depth \in 0..kerx1StackSize
        /\ aat.dc.acted =>
              LET p == aat.dc.popped
              IN IF Len(aat.dc.actions) < aat.dc.depth0
                 THEN p = <<>> /\ aat.dc.depth = 0
                 ELSE /\ Len(p) >= 1
                      /\ poppedInOrder(aat.dc)
                      /\ \A k \in 1..Len(p) : p[k].applied = (p[k].idx < Len(aat.b.pos))
                      /\ \A k \in 1..(Len(p) - 1) : ~(p[k].applied /\ p[k].v % 2 = 1)
                      /\ (p[Len(p)].applied /\ p[Len(p)].v % 2 = 1)
                            \/ Len(p) = aat.dc.depth0
                      /\ aat.dc.depth = aat.dc.depth0 - Len(p)

\* an odd value has ended the list with an entry left on the stack
C25_Witness ==
    /\ aat.pc \in {"drive", "done"}
    /\ aat.dc.acted /\ aat.dc.depth0 = 2 /\ aat.dc.depth = 1
    /\ aat.dc.actions = <<3, 2>>
    /\ Len(aat.dc.popped) = 1 /\ aat.dc.popped[1].applied

\* a push on the full stack has cleared it
C25_WitnessFull ==
    aat.pc \in {"drive", "done"} /\ aat.dc.full /\ aat.dc.depth0 = 0

\* the odd value of an entry pushed at the end of the buffer has not ended
\* the list
C25_WitnessOutside ==
    /\ aat.pc \in {"drive", "done"}
    /\ aat.dc.acted /\ Len(aat.dc.popped) = 2
    /\ ~aat.dc.popped[1].applied /\ aat.dc.popped[1].v = 3

\* a list shorter than the stack is deep has cleared the stack
C25_WitnessShort ==
    /\ aat.pc \in {"drive", "done"}
    /\ aat.dc.acted /\ aat.dc.depth0 = 3 /\ aat.dc.actions = <<3>>
    /\ aat.dc.popped = <<>> /\ aat.dc.depth = 0

(***************************************************************************)
(* GPOS attachment.  gp is [pc, info, pos, direction, hasGPOSAttachment,    *)
(* steps, last, before]: info the glyphs, pos their positions (counted from *)
(* 0 in the code, from 1 here), last what the last lookup has done, before  *)
(* the positions as positionFinishOffsetsGPOS has found them.  Glyph 1 has  *)
(* an entry and an exit anchor, glyph 7 is a mark.  Anchors are whole       *)
(* numbers, which roundf leaves as they are.                                *)
(***************************************************************************)
MaxGposLen == 3
MaxGposSteps == 3
otRightToLeft == 1
otIgnoreLigatures == 4
otIgnoreMarks == 8
markGlyph == 7
ligatureGlyph == 5

entryAnchor == [x |-> 2, y |-> 3]

exitAnchor == [x |-> 8, y |-> 5]

baseAnchor == [x |-> 5, y |-> 9]

markAnchor == [x |-> 1, y |-> 1]

isHorizontal(direction) == direction \in {"LeftToRight", "RightToLeft"}

isForward(direction) == direction \in {"LeftToRight", "TopToBottom"}

Directions == {"LeftToRight", "RightToLeft", "TopToBottom", "BottomToTop"}

\* skippyIter.prev from idx: the glyph before idx that the lookup does not
\* skip, -1 when there is none
prevGlyph(info, idx, lookupProps) ==
    LET seen == {k \in 0..(idx - 1) :
                    /\ ~((lookupProps \div otIgnoreMarks) % 2 = 1
                         /\ info[k + 1] = markGlyph)
                    /\ ~((lookupProps \div otIgnoreLigatures) % 2 = 1
                         /\ info[k + 1] = ligatureGlyph)}
    IN IF seen = {} THEN 0 - 1 ELSE CHOOSE k \in seen : \A l \in seen : l <= k

RECURSIVE reverseCursiveMinorOffset(_, _, _, _)
reverseCursiveMinorOffset(pos, i, direction, newParent) ==
    LET chain == pos[i + 1].attachChain
        type == pos[i + 1].attachType
    IN IF chain = 0 \/ (type \div attachTypeCursive) % 2 = 0 THEN pos
       ELSE LET pos1 == [pos EXCEPT ![i + 1].attachChain = 0]
                j == i + chain
            IN IF j = newParent THEN pos1
               ELSE LET pos2 == reverseCursiveMinorOffset(pos1, j, direction, newParent)
                        pos3 == IF isHorizontal(direction)
                                THEN [pos2 EXCEPT ![j + 1].yOffset = 0 - pos2[i + 1].yOffset]
                                ELSE [pos2 EXCEPT ![j + 1].xOffset = 0 - pos2[i + 1].xOffset]
                    IN [pos3 EXCEPT ![j + 1].attachChain = 0 - chain,
                                    ![j + 1].attachType = type]

\* the main-direction adjustment of the two glyphs
cursiveAdvance(pos, i, j, direction) ==
    LET pi == pos[i + 1]
        pj == pos[j + 1]
    IN IF direction = "LeftToRight"
       THEN LET d == entryAnchor.x + pj.xOffset
            IN [pos EXCEPT ![i + 1].xAdvance = exitAnchor.x + pi.xOffset,
                           ![j + 1].xAdvance = pj.xAdvance - d,
                           ![j + 1].xOffset = pj.xOffset - d]
       ELSE IF direction = "RightToLeft"
       THEN LET d == exitAnchor.x + pi.xOffset
            IN [pos EXCEPT ![i + 1].xAdvance = pi.xAdvance - d,
                           ![i + 1].xOffset = pi.xOffset - d,
                           ![j + 1].xAdvance = entryAnchor.x + pj.xOffset]
       ELSE IF direction = "TopToBottom"
       THEN LET d == entryAnchor.y + pj.yOffset
            IN [pos EXCEPT ![i + 1].yAdvance = exitAnchor.y + pi.yOffset,
                           ![j + 1].yAdvance = pj.yAdvance - d,
                           ![j + 1].yOffset = pj.yOffset - d]
       ELSE LET d == exitAnchor.y + pi.yOffset
            IN [pos EXCEPT ![i + 1].yAdvance = pi.yAdvance - d,
                           ![i + 1].yOffset = pi.yOffset - d,
                           ![j + 1].yAdvance = entryAnchor.y]

\* child and parent whatever the flag of the lookup is: the previous glyph
\* is the child
cursiveEndsPrevious(i, j, lookupProps) ==
    [child |-> i, parent |-> j,
     xOffset |-> entryAnchor.x - exitAnchor.x, yOffset |-> entryAnchor.y - exitAnchor.y]

\* child and parent of the attachment of the previous glyph i and the current glyph j
cursiveEnds(i, j, lookupProps) ==
    IF (lookupProps % 65536) % 2 = 0
    THEN [child |-> j, parent |-> i,
          xOffset |-> 0 - (entryAnchor.x - exitAnchor.x),
          yOffset |-> 0 - (entryAnchor.y - exitAnchor.y)]
    ELSE [child |-> i, parent |-> j,
          xOffset |-> entryAnchor.x - exitAnchor.x, yOffset |-> entryAnchor.y - exitAnchor.y]

\* applyGPOSCursive at the glyph idx; ok says whether the lookup has applied
\* the parent stays attached to the child
separateParentNone(pos, child, parent, direction) == pos

\* "If parent was attached to child, separate them."
separateParent(pos, child, parent, direction) ==
    IF pos[parent + 1].attachChain = 0 - pos[child + 1].attachChain
    THEN IF isHorizontal(direction)
         THEN [pos EXCEPT ![parent + 1].attachChain = 0, ![parent + 1].yOffset = 0]
         ELSE [pos EXCEPT ![parent + 1].attachChain = 0, ![parent + 1].xOffset = 0]
    ELSE pos

applyGPOSCursive(g, idx, lookupProps) ==
    LET i == prevGlyph(g.info, idx, lookupProps)
        j == idx
        failed == [g EXCEPT !.last = [kind |-> "cursive", ok |-> FALSE, i |-> i, j |-> j,
                                      lookupProps |-> lookupProps]]
    IN IF g.info[idx + 1] = markGlyph THEN failed
       ELSE IF i < 0 THEN failed
       ELSE IF g.info[i + 1] = markGlyph THEN failed
       ELSE LET pos1 == cursiveAdvance(g.pos, i, j, g.direction)
                e == cursiveEnds(i, j, lookupProps)
                pos2 == reverseCursiveMinorOffset(pos1, e.child, g.direction, e.parent)
                pos3 == [pos2 EXCEPT ![e.child + 1].attachType = attachTypeCursive,
                                     ![e.child + 1].attachChain = e.parent - e.child]
                pos4 == IF isHorizontal(g.direction)
                        THEN [pos3 EXCEPT ![e.child + 1].yOffset = e.yOffset]
                        ELSE [pos3 EXCEPT ![e.child + 1].xOffset = e.xOffset]
                pos5 == separateParent(pos4, e.child, e.parent, g.direction)
            IN [g EXCEPT !.pos = pos5, !.hasGPOSAttachment = TRUE,
                         !.last = [kind |-> "cursive", ok |-> TRUE, i |-> i, j |-> j,
                                   lookupProps |-> lookupProps]]

\* applyGPOSMarks: the mark at idx on the glyph at glyphPos
applyGPOSMarks(g, idx, glyphPos) ==
    [g EXCEPT !.pos[idx + 1].xOffset = baseAnchor.x - markAnchor.x,
              !.pos[idx + 1].yOffset = baseAnchor.y - markAnchor.y,
              !.pos[idx + 1].attachType = attachTypeMark,
              !.pos[idx + 1].attachChain = glyphPos - idx,
              !.hasGPOSAttachment = TRUE,
              !.last = [kind |-> "mark", ok |-> TRUE, i |-> glyphPos, j |-> idx,
                        lookupProps |-> 0]]

RECURSIVE sumAdvances(_, _, _, _)
sumAdvances(pos, from, to, horizontal) ==
    IF from >= to THEN 0
    ELSE (IF horizontal THEN pos[from + 1].xAdvance ELSE pos[from + 1].yAdvance)
         + sumAdvances(pos, from + 1, to, horizontal)

\* the offsets of the parent on those of a mark, and no advance
attachOffsetsNoAdvance(p, i, j, type, direction) ==
    IF (type \div attachTypeCursive) % 2 # 0
    THEN IF isHorizontal(direction)
         THEN [p EXCEPT ![i + 1].yOffset = @ + p[j + 1].yOffset]
         ELSE [p EXCEPT ![i + 1].xOffset = @ + p[j + 1].xOffset]
    ELSE [p EXCEPT ![i + 1].xOffset = @ + p[j + 1].xOffset,
                   ![i + 1].yOffset = @ + p[j + 1].yOffset]

\* the offsets of the parent j on those of the glyph i attached to it
attachOffsets(p, i, j, type, direction) ==
    IF (type \div attachTypeCursive) % 2 # 0
    THEN IF isHorizontal(direction)
         THEN [p EXCEPT ![i + 1].yOffset = @ + p[j + 1].yOffset]
         ELSE [p EXCEPT ![i + 1].xOffset = @ + p[j + 1].xOffset]
    ELSE IF isForward(direction)
    THEN [p EXCEPT ![i + 1].xOffset = @ + p[j + 1].xOffset - sumAdvances(p, j, i, TRUE),
                   ![i + 1].yOffset = @ + p[j + 1].yOffset - sumAdvances(p, j, i, FALSE)]
    ELSE [p EXCEPT ![i + 1].xOffset = @ + p[j + 1].xOffset
                                      + sumAdvances(p, j + 1, i + 1, TRUE),
                   ![i + 1].yOffset = @ + p[j + 1].yOffset
                                      + sumAdvances(p, j + 1, i + 1, FALSE)]

RECURSIVE propagateAttachmentOffsets(_, _, _)
propagateAttachmentOffsets(pos, i, direction) ==
    LET chain == pos[i + 1].attachChain
        type == pos[i + 1].attachType
    IN IF chain = 0 THEN pos
       ELSE LET pos1 == [pos EXCEPT ![i + 1].attachChain = 0]
                j == i + chain
            IN IF j >= Len(pos) THEN pos1
               ELSE attachOffsets(propagateAttachmentOffsets(pos1, j, direction),
                                  i, j, type, direction)

RECURSIVE propagateFrom(_, _, _)
propagateFrom(pos, i, direction) ==
    IF i >= Len(pos) THEN pos
    ELSE propagateFrom(propagateAttachmentOffsets(pos, i, direction), i + 1, direction)

positionFinishOffsetsGPOS(g) ==
    IF g.hasGPOSAttachment
    THEN [g EXCEPT !.pos = propagateFrom(g.pos, 0, g.direction)]
    ELSE g

GposInputs == UNION {[1..n -> {1, markGlyph}] : n \in 2..MaxGposLen}

startPosition(g, direction) ==
    [xAdvance |-> IF isHorizontal(direction) /\ g # markGlyph THEN 10 ELSE 0,
     yAdvance |-> IF ~isHorizontal(direction) /\ g # markGlyph THEN 0 - 10 ELSE 0,
     xOffset |-> 0, yOffset |-> 0, attachType |-> attachTypeNone, attachChain |-> 0]

noLast == [kind |-> "none", ok |-> FALSE, i |-> 0, j |-> 0, lookupProps |-> 0]

InitGpos ==
    /\ font = fontTiny
    /\ plan = newPlan(font)
    /\ buffers = <<>>
    /\ shapers = <<>>
    /\ hist = noHist
    /\ pf = idlePf
    /\ mb = idleMb
    /\ ro = idleRo
    /\ sd = idleSd
    /\ it = idleIt
    /\ cl = idleCl
    /\ lg = idleLg
    /\ lp = idleLp
    /\ aat = idleAat
    /\ vr = idleVr
    /\ \E info \in GposInputs, direction \in Directions :
          gp = [pc |-> "position", info |-> info,
                pos |-> [k \in 1..Len(info) |-> startPosition(info[k], direction)],
                direction |-> direction, hasGPOSAttachment |-> FALSE, steps |-> 0,
                last |-> noLast, before |-> <<>>]

ApplyGPOSCursive ==
    /\ gp.pc = "position" /\ gp.steps < MaxGposSteps
    /\ \E idx \in 0..(Len(gp.info) - 1),
          lookupProps \in {0, otRightToLeft, otIgnoreMarks, otIgnoreMarks + otRightToLeft} :
          gp' = [applyGPOSCursive(gp, idx, lookupProps) EXCEPT !.steps = gp.steps + 1]
    /\ UNCHANGED <<font, plan, buffers, shapers, hist, pf, mb, ro, sd, it, cl, lg, lp, aat, vr>>

\* a mark on the glyph before it or on the nearest glyph before it that is
\* not a mark
ApplyGPOSMarks ==
    /\ gp.pc = "position" /\ gp.steps < MaxGposSteps
    /\ \E idx \in 1..(Len(gp.info) - 1) :
          /\ gp.info[idx + 1] = markGlyph
          /\ \E glyphPos \in {idx - 1, prevGlyph(gp.info, idx, otIgnoreMarks)} :
                /\ glyphPos >= 0
                /\ gp' = [applyGPOSMarks(gp, idx, glyphPos) EXCEPT !.steps = gp.steps + 1]
    /\ UNCHANGED <<font, plan, buffers, shapers, hist, pf, mb, ro, sd, it, cl, lg, lp, aat, vr>>

PositionFinishOffsetsGPOS ==
    /\ gp.pc = "position"
    /\ gp' = [positionFinishOffsetsGPOS(gp) EXCEPT !.pc = "finished", !.before = gp.pos]
    /\ UNCHANGED <<font, plan, buffers, shapers, hist, pf, mb, ro, sd, it, cl, lg, lp, aat, vr>>

NextGpos == ApplyGPOSCursive \/ ApplyGPOSMarks \/ PositionFinishOffsetsGPOS

SpecGpos == InitGpos /\ [][NextGpos]_vars

C26_WitnessPrevious ==
    /\ gp.pc = "position" /\ gp.last.kind = "cursive" /\ gp.last.ok
    /\ gp.last.lookupProps = 0
    /\ gp.last.i = 1 /\ gp.last.j = 2
    /\ gp.pos[3].attachChain = 0 - 1

\* the glyphs that were attached when positionFinishOffsetsGPOS began
attachedGlyphs == {i \in 0..(Len(gp.before) - 1) : gp.before[i + 1].attachChain # 0}

\* the advances of the glyphs from the parent j up to the glyph before i
advancesBetween(j, i, horizontal) == sumAdvances(gp.before, j, i, horizontal)

C27_WitnessBackward ==
    /\ gp.pc = "finished" /\ gp.direction = "RightToLeft"
    /\ gp.before[2].attachType = attachTypeMark /\ gp.before[2].attachChain = 0 - 1
    /\ gp.pos[2].xOffset = gp.before[2].xOffset + gp.before[1].xOffset + gp.before[2].xAdvance

\* a glyph attached across the line to a glyph that is itself attached
C27_WitnessCursive ==
    /\ gp.pc = "finished" /\ gp.direction = "LeftToRight"
    /\ \E i \in attachedGlyphs :
          /\ gp.before[i + 1].attachType = attachTypeCursive
          /\ (i + gp.before[i + 1].attachChain) \in attachedGlyphs
          /\ gp.pos[i + 1].yOffset # gp.before[i + 1].yOffset

(***************************************************************************)
(* The Khmer reordering of one syllable [start, end) of a buffer that may   *)
(* have a glyph before and a glyph after the syllable.  Every glyph carries *)
(* the place it had in the input, at, counted from 1.  A syllable is a      *)
(* consonant followed by groups Coeng + consonant, Coeng + Ra and left      *)
(* matras, and may end in a Coeng.                                          *)
(***************************************************************************)
MaxKhmerGroups == 3

khmerGroups == {<<"H", "C">>, <<"H", "Ra">>, <<"VPre">>}

RECURSIVE khmerTails(_)
khmerTails(n) ==
    IF n = 0 THEN {<<>>}
    ELSE {<<>>} \cup {g \o t : g \in khmerGroups, t \in khmerTails(n - 1)}

KhmerSyllables ==
    {<<"C">> \o t \o h : t \in khmerTails(MaxKhmerGroups), h \in {<<>>, <<"H">>}}

placed(cat, k) ==
    [cat |-> cat, aux |-> 0, cluster |-> 0, mask |-> {}, ligated |-> FALSE,
     multiplied |-> FALSE, ligComp |-> 0, syllable |-> 0, at |-> k]

reorderSyllableKhmer(info, syllableType, start, end) ==
    IF syllableType \in {"broken_cluster", "consonant_syllable"}
    THEN reorderConsonantSyllable(info, start, end)
    ELSE info

InitKhmer ==
    /\ font = fontTiny
    /\ plan = newPlan(font)
    /\ buffers = <<>>
    /\ shapers = <<>>
    /\ hist = noHist
    /\ pf = idlePf
    /\ mb = idleMb
    /\ sd = idleSd
    /\ it = idleIt
    /\ cl = idleCl
    /\ lg = idleLg
    /\ lp = idleLp
    /\ aat = idleAat
    /\ gp = idleGp
    /\ vr = idleVr
    /\ \E syl \in KhmerSyllables, before \in 0..1, after \in 0..1, c \in Clusterings,
          t \in {"consonant_syllable", "broken_cluster", "non_khmer_cluster"} :
          LET cats == [k \in 1..before |-> "C"] \o syl \o [k \in 1..after |-> "C"]
              info == withClusters([k \in 1..Len(cats) |-> placed(cats[k], k)], c)
          IN ro = [pc |-> "start", shaper |-> "khmer", info |-> info, input |-> info,
                   syllableType |-> t, start |-> before, end |-> before + Len(syl)]

ReorderSyllableKhmer ==
    /\ ro.pc = "start" /\ ro.shaper = "khmer"
    /\ ro' = [ro EXCEPT !.pc = "done",
                        !.info = reorderSyllableKhmer(ro.info, ro.syllableType,
                                                      ro.start, ro.end)]
    /\ UNCHANGED <<font, plan, buffers, shapers, hist, pf, mb, sd, it, cl, lg, lp, aat, gp, vr>>

NextKhmer == ReorderSyllableKhmer

SpecKhmer == InitKhmer /\ [][NextKhmer]_vars

\* the places of the glyphs of the syllable in the input
inSyllable == (ro.start + 1)..ro.end

\* where the glyph of place k of the input is now
finalAt(k) == CHOOSE q \in 1..Len(ro.info) : ro.info[q].at = k

\* the glyph of place k has gone in front of a glyph that was before it
jumped(k) == \E h \in inSyllable : h < k /\ finalAt(h) > finalAt(k)

\* the Coengs that are followed by Ra, and those of them that were moved
coengRa ==
    {k \in inSyllable : /\ k + 1 \in inSyllable
                        /\ ro.input[k].cat = "H" /\ ro.input[k + 1].cat = "Ra"}

movedPairs == {k \in coengRa : jumped(k) /\ jumped(k + 1)}

earlierCoengs(k) == Cardinality({h \in inSyllable : h < k /\ ro.input[h].cat = "H"})

\* C28: a Coeng followed by Ra is moved only when it is the first or the
\* second Coeng of the syllable; after two earlier Coengs the pair stays
C28_WithinTwoCoengs ==
    ro.pc = "done" => \A k \in movedPairs : earlierCoengs(k) < 2

\* the glyphs of the syllable one cluster from the start up to the Ra of the
\* pair at k
oneCluster(k) ==
    \A h \in inSyllable :
        h <= k + 1 => ro.info[finalAt(h)].cluster = ro.info[finalAt(k)].cluster

\* C29 as stated: a moved pair stands at the start of the syllable, Coeng
\* before Ra, the other glyphs of the syllable keep their order, no glyph
\* outside of the syllable is touched, and the pair and the glyphs it has
\* jumped over have one cluster
C29_PairAtStart ==
    ro.pc = "done" =>
        \A k \in movedPairs :
            /\ finalAt(k) = ro.start + 1 /\ finalAt(k + 1) = ro.start + 2
            /\ \A g, h \in inSyllable \ {k, k + 1} : g < h => finalAt(g) < finalAt(h)
            /\ \A q \in 1..Len(ro.info) : q \notin inSyllable => ro.info[q] = ro.input[q]
            /\ oneCluster(k)

\* the glyphs the loop moves: the left matras and the moved pairs
movedGlyphs ==
    {h \in inSyllable : ro.input[h].cat = "VPre" /\ h > ro.start + 1}
    \cup movedPairs \cup {k + 1 : k \in movedPairs}

\* C29 amended: a moved pair stands, Coeng before Ra, in front of all the
\* glyphs of the syllable that were before it; only left matras and pairs
\* that come later in the syllable stand in front of it; the glyphs that
\* are not moved keep their order; no glyph outside of the syllable is
\* moved, and its cluster changes only when a glyph of the syllable has the
\* same cluster; the pair and the glyphs it has jumped over have one cluster
C29_PairBeforeEarlier ==
    ro.pc = "done" =>
        \A k \in movedPairs :
            /\ finalAt(k + 1) = finalAt(k) + 1
            /\ \A h \in inSyllable : h < k => finalAt(h) > finalAt(k + 1)
            /\ \A h \in inSyllable :
                  finalAt(h) < finalAt(k) => h > k + 1 /\ h \in movedGlyphs
            /\ \A g, h \in inSyllable \ movedGlyphs : g < h => finalAt(g) < finalAt(h)
            /\ \A q \in 1..Len(ro.info) :
                  q \notin inSyllable =>
                     /\ [ro.info[q] EXCEPT !.cluster = 0] = [ro.input[q] EXCEPT !.cluster = 0]
                     /\ (\A h \in inSyllable : ro.input[h].cluster # ro.input[q].cluster)
                           => ro.info[q].cluster = ro.input[q].cluster
            /\ \A q \in inSyllable : ro.info[q].at \in inSyllable
            /\ oneCluster(k)

\* base, Coeng, Ro has become Coeng, Ro, base with every cluster 0
C29_Witness ==
    /\ ro.pc = "done"
    /\ [q \in 1..Len(ro.input) |-> ro.input[q].cat] = <<"C", "H", "Ra">>
    /\ [q \in 1..Len(ro.input) |-> ro.input[q].cluster] = <<0, 1, 2>>
    /\ [q \in 1..Len(ro.info) |-> ro.info[q].cat] = <<"H", "Ra", "C">>
    /\ \A q \in 1..3 : ro.info[q].cluster = 0

\* a left matra stands in front of the moved pair
C29_WitnessMatra ==
    /\ ro.pc = "done" /\ ro.start = 1
    /\ \E k \in movedPairs : finalAt(k) = ro.start + 2
    /\ ro.info[ro.start + 1].cat = "VPre"

(***************************************************************************)
(* The USE reordering of one syllable [start, end) of a buffer that may     *)
(* have a glyph before and a glyph after the syllable.  forward is the      *)
(* buffer after the first of the two moves of reorderSyllableUse.           *)
(***************************************************************************)
withPlace(g, k) ==
    [cat |-> g.cat, aux |-> g.aux, cluster |-> g.cluster, mask |-> g.mask,
     ligated |-> g.ligated, multiplied |-> g.multiplied, ligComp |-> g.ligComp,
     syllable |-> g.syllable, at |-> k]

useSyllableGlyphs ==
    {glyph(c, 0) : c \in {"B", "R", "H", "VPre", "VPst"}}
    \cup {[glyph("H", 0) EXCEPT !.ligated = TRUE]}

InitUse ==
    /\ font = fontTiny
    /\ plan = newPlan(font)
    /\ buffers = <<>>
    /\ shapers = <<>>
    /\ hist = noHist
    /\ pf = idlePf
    /\ mb = idleMb
    /\ sd = idleSd
    /\ it = idleIt
    /\ cl = idleCl
    /\ lg = idleLg
    /\ lp = idleLp
    /\ aat = idleAat
    /\ gp = idleGp
    /\ vr = idleVr
    /\ \E syl \in Syllables(useSyllableGlyphs, {glyph("R", 0), glyph("B", 0)}, MaxCluster),
          before \in 0..1, after \in 0..1, c \in Clusterings,
          t \in {"standard_cluster", "number_joiner_terminated_cluster"} :
          LET all == [k \in 1..before |-> glyph("B", 0)] \o syl
                     \o [k \in 1..after |-> glyph("B", 0)]
              info == withClusters([k \in 1..Len(all) |-> withPlace(all[k], k)], c)
          IN ro = [pc |-> "start", shaper |-> "use", info |-> info, input |-> info,
                   forward |-> info, syllableType |-> t,
                   start |-> before, end |-> before + Len(syl)]

ReorderSyllableUse ==
    /\ ro.pc = "start" /\ ro.shaper = "use"
    /\ ro' = [ro EXCEPT !.pc = "done",
                        !.forward = IF ro.syllableType \in useReordered
                                    THEN moveThingsForward(ro.info, ro.start, ro.end)
                                    ELSE ro.info,
                        !.info = reorderSyllableUse(ro.info, ro.syllableType,
                                                    ro.start, ro.end)]
    /\ UNCHANGED <<font, plan, buffers, shapers, hist, pf, mb, sd, it, cl, lg, lp, aat, gp, vr>>

NextUse == ReorderSyllableUse

SpecUse == InitUse /\ [][NextUse]_vars

\* the places of the post-base glyphs after the first glyph of the syllable
postBasePlaces ==
    {k \in inSyllable :
        /\ k > ro.start + 1
        /\ \/ ro.input[k].cat \in {"VPre", "VPst"}
           \/ ro.input[k].cat = "H" /\ ~ro.input[k].ligated}

\* the place the repha goes to: before the first post-base glyph, or the end
rephaPlace ==
    IF postBasePlaces = {} THEN ro.end
    ELSE (CHOOSE k \in postBasePlaces : \A h \in postBasePlaces : k <= h) - 1

\* the repha stands at its place, the glyphs it has passed are one place to
\* the left in their order and every other glyph is where it was
rephaMoved ==
    \A q \in 1..Len(ro.forward) :
        ro.forward[q].at = IF q = rephaPlace THEN ro.start + 1
                           ELSE IF q \in inSyllable /\ q < rephaPlace THEN q + 1
                           ELSE q

\* no glyph is lost, doubled or moved over the border of the syllable
withinSyllable(info) ==
    /\ Len(info) = Len(ro.input)
    /\ \A q \in 1..Len(info) :
          /\ [info[q] EXCEPT !.cluster = 0] = [ro.input[info[q].at] EXCEPT !.cluster = 0]
          /\ q \notin inSyllable => info[q].at = q
    /\ {info[q].at : q \in inSyllable} = inSyllable

\* C30 as stated: a repha at the start of a syllable goes to the right up to
\* the place before the first post-base glyph, to the end of the syllable
\* when there is none; the glyphs it passes are one place to the left in
\* their order, and no glyph is lost, doubled or moved over the border of
\* the syllable
C30_RephaMoves ==
    (ro.pc = "done" /\ ro.input[ro.start + 1].cat = "R") =>
        /\ rephaMoved
        /\ withinSyllable(ro.forward)
        /\ withinSyllable(ro.info)

\* C30 amended: the same in the syllables of the types that are reordered;
\* in a syllable of another type no glyph moves
C30_RephaMovesInReordered ==
    (ro.pc = "done" /\ ro.input[ro.start + 1].cat = "R") =>
        /\ IF ro.syllableType \in useReordered THEN rephaMoved
           ELSE \A q \in 1..Len(ro.info) : ro.info[q] = ro.input[q]
        /\ withinSyllable(ro.forward)
        /\ withinSyllable(ro.info)

\* the repha has passed two glyphs and stands before a halant
C30_Witness ==
    /\ ro.pc = "done" /\ ro.start = 1 /\ ro.end = 5
    /\ [q \in 2..5 |-> ro.input[q].cat] = [q \in 2..5 |-> <<"R", "B", "B", "H">>[q - 1]]
    /\ ~ro.input[5].ligated
    /\ [q \in 1..Len(ro.forward) |-> ro.forward[q].at] = <<1, 3, 4, 2, 5, 6>>

\* no post-base glyph: the repha stands at the end of the syllable
C30_WitnessEnd ==
    /\ ro.pc = "done" /\ ro.start = 0 /\ ro.end = 3 /\ Len(ro.input) = 4
    /\ ro.input[1].cat = "R" /\ postBasePlaces = {}
    /\ [q \in 1..4 |-> ro.forward[q].at] = <<2, 3, 1, 4>>


(***************************************************************************)
(* The sort of an Indic consonant syllable [start, end) of a buffer that    *)
(* may have a glyph before and a glyph after the syllable.  Every glyph     *)
(* carries the place it had in the input, at, counted from 1, and the       *)
(* syllable value of its syllable; positioned is the buffer as the sort     *)
(* finds it, with the positions the first steps of the function gave.       *)
(***************************************************************************)
MaxSorted == 4

SortScripts == {"Devanagari", "Kannada"}

\* the serial number and the type of a syllable in one byte
syllableValue(serial) == serial * 16 + 1

InitSort ==
    /\ font = fontTiny
    /\ plan = newPlan(font)
    /\ buffers = <<>>
    /\ shapers = <<>>
    /\ hist = noHist
    /\ pf = idlePf
    /\ mb = idleMb
    /\ sd = idleSd
    /\ it = idleIt
    /\ cl = idleCl
    /\ lg = idleLg
    /\ lp = idleLp
    /\ aat = idleAat
    /\ gp = idleGp
    /\ vr = idleVr
    /\ \E syl \in {s \in indicSyllables : Len(s) <= MaxSorted},
          before \in 0..1, after \in 0..1, c \in Clusterings,
          script \in SortScripts, old \in BOOLEAN :
          LET outside == << glyph("C", posBaseC) >>
              glyphs == SubSeq(outside, 1, before) \o syl \o SubSeq(outside, 1, after)
              end == before + Len(syl)
              info == withClusters(
                          [k \in 1..Len(glyphs) |->
                              [withPlace(glyphs[k], k) EXCEPT !.syllable =
                                  syllableValue(IF k <= before THEN 1
                                                ELSE IF k <= end THEN 2 ELSE 3)]], c)
          IN ro = [pc |-> "start", shaper |-> "indic", info |-> info, input |-> info,
                   positioned |-> info, syllableType |-> "consonant_syllable",
                   start |-> before, end |-> end,
                   p |-> [script |-> script, isOldSpec |-> old, rphf |-> TRUE,
                          uniscribeBugCompatible |-> FALSE]]

InitialReorderingConsonantSyllable ==
    /\ ro.pc = "start" /\ ro.shaper = "indic"
    /\ ro' = [ro EXCEPT
                !.pc = "done",
                !.positioned = positionedSyllable(ro.info, ro.p, ro.start, ro.end),
                !.info = initialReorderingConsonantSyllable(ro.info, ro.p,
                                                            ro.start, ro.end)]
    /\ UNCHANGED <<font, plan, buffers, shapers, hist, pf, mb, sd, it, cl, lg, lp, aat, gp, vr>>

NextSort == InitialReorderingConsonantSyllable

SpecSort == InitSort /\ [][NextSort]_vars

\* where the glyph that the sort found at place k is now
sortedAt(k) == CHOOSE q \in 1..Len(ro.info) : ro.info[q].at = ro.positioned[k].at

\* a glyph but for its cluster and the flags of its mask, which
\* mergeClusters sets
sameGlyph(g, h) == [g EXCEPT !.cluster = 0, !.mask = {}] = [h EXCEPT !.cluster = 0, !.mask = {}]

\* the left matras the sort found up to place k of the syllable
matrasUpTo(k) ==
    Cardinality({h \in inSyllable :
                    /\ h <= k
                    /\ ro.positioned[h].aux = posPreM
                    /\ ro.positioned[h].cat \in {"M", "MPst"}})

\* the glyph of place i stands in front of the glyph of place j, i < j:
\* the lower position first; of equal positions the earlier glyph, but of
\* two left matras the later one, each with the marks that follow it
inFront(i, j) ==
    LET gi == ro.positioned[i]
        gj == ro.positioned[j]
    IN IF gi.aux # gj.aux THEN gi.aux < gj.aux
       ELSE IF gi.aux # posPreM THEN TRUE
       ELSE matrasUpTo(i) = matrasUpTo(j) /\ matrasUpTo(i) > 0

\* C31: the initial reordering of a consonant syllable sorts the glyphs of
\* the syllable stably by their position (glyphs of equal position keep
\* their order) and then puts the left matras, each with its marks, in
\* reverse order; the glyphs of the syllable are permuted and no other
\* glyph is moved, and every glyph has the syllable value it had.
C31_SortedStably ==
    ro.pc = "done" /\ ro.shaper = "indic" =>
        /\ Len(ro.info) = Len(ro.positioned)
        /\ \A k \in 1..Len(ro.info) :
              /\ k \notin inSyllable => sameGlyph(ro.info[k], ro.positioned[k])
              /\ ro.info[k].syllable = ro.input[k].syllable
        /\ \A k \in inSyllable :
              /\ sortedAt(k) \in inSyllable
              /\ sameGlyph(ro.info[sortedAt(k)], ro.positioned[k])
              /\ \A h \in inSyllable : h # k => sortedAt(h) # sortedAt(k)
        /\ \A i, j \in inSyllable :
              i < j => (inFront(i, j) <=> sortedAt(i) < sortedAt(j))

\* a syllable between two glyphs with two left matras, the first with a
\* nukta, which the sort took in front of the base and flipped
C31_Witness ==
    /\ ro.pc = "done" /\ ro.shaper = "indic"
    /\ ro.start = 1 /\ ro.end = Len(ro.info) - 1
    /\ \E i, j, n \in inSyllable :
          /\ i < n /\ n < j
          /\ ro.positioned[i].cat = "M" /\ ro.positioned[j].cat = "M"
          /\ ro.positioned[n].cat = "N"
          /\ ro.positioned[i].aux = posPreM /\ ro.positioned[j].aux = posPreM
          /\ ro.positioned[n].aux = posPreM
          /\ sortedAt(j) < sortedAt(i) /\ sortedAt(n) = sortedAt(i) + 1

\* two glyphs of one position other than that of the left matras, which
\* keep their order while a glyph that was after them goes in front
C31_WitnessStable ==
    /\ ro.pc = "done" /\ ro.shaper = "indic"
    /\ \E i, j, k \in inSyllable :
          /\ i < j /\ j < k
          /\ ro.positioned[i].aux = ro.positioned[j].aux
          /\ ro.positioned[i].aux # posPreM
          /\ sortedAt(k) < sortedAt(i) /\ sortedAt(i) < sortedAt(j)

(***************************************************************************)
(* The normalisation of design coordinates.  The axes of fvar are the       *)
(* records of the font table as they are (newFvar), so Minimum, Default     *)
(* and Maximum are any three numbers.  The values are float32 in the code;  *)
(* here they are whole numbers and the quotient is a fraction, which is     *)
(* what the float32 division gives before math.Round for the small spans    *)
(* of the model.  A float that an int16 cannot hold, and the infinity that  *)
(* a division by zero gives, convert to a value that depends on the build.  *)
(***************************************************************************)
MaxDesign == 2

\* 1 << 14
oneF2Dot14 == 16384

minInt16 == 0 - 32768

maxInt16 == 32767

DesignValues == (0 - MaxDesign)..MaxDesign

\* tables.VariationAxisRecord
axisRecord(minimum, default, maximum) ==
    [Minimum |-> minimum, Default |-> default, Maximum |-> maximum]

abs(n) == IF n < 0 THEN 0 - n ELSE n

\* math.Round(num / den * 16384): half away from zero
roundScaled(num, den) ==
    LET q == (2 * abs(num) * oneF2Dot14 + abs(den)) \div (2 * abs(den))
    IN IF (num < 0) = (den < 0) THEN q ELSE 0 - q

\* out of range: clamping
clamp(a, coord) ==
    IF coord > a.Maximum THEN a.Maximum
    ELSE IF coord < a.Minimum THEN a.Minimum
    ELSE coord

\* the fraction num / den that coord becomes
normalizeAxis(a, coord) ==
    LET c == clamp(a, coord)
    IN IF c < a.Default
       THEN [num |-> 0 - (c - a.Default), den |-> a.Minimum - a.Default]
       ELSE IF c > a.Default
       THEN [num |-> c - a.Default, den |-> a.Maximum - a.Default]
       ELSE [num |-> 0, den |-> 1]

\* VarCoord(math.Round(float64(coord * 16384))): the values the conversion
\* may give
varCoords(f) ==
    IF f.den = 0 THEN {minInt16, 0, maxInt16}
    ELSE LET r == roundScaled(f.num, f.den)
         IN IF minInt16 <= r /\ r <= maxInt16 THEN {r} ELSE {minInt16, 0, maxInt16}

\* the fractions of the axes of fv
normalizeCoordinates(fv, coords) ==
    [i \in 1..Len(fv) |-> normalizeAxis(fv[i], coords[i])]

\* the fonts: one axis with any record, or two with a second axis of the
\* usual kind
Fvars ==
    LET first == {axisRecord(a, b, c) : a \in DesignValues, b \in DesignValues,
                                         c \in DesignValues}
    IN {<<a>> : a \in first}
       \cup {<<a, axisRecord(0 - 1, 0, 1)>> : a \in first}

InitNormalize ==
    /\ font = fontTiny
    /\ plan = newPlan(font)
    /\ buffers = <<>>
    /\ shapers = <<>>
    /\ hist = noHist
    /\ pf = idlePf
    /\ mb = idleMb
    /\ ro = idleRo
    /\ sd = idleSd
    /\ it = idleIt
    /\ cl = idleCl
    /\ lg = idleLg
    /\ lp = idleLp
    /\ aat = idleAat
    /\ gp = idleGp
    /\ \E fv \in Fvars, c \in ((0 - MaxDesign) - 1)..(MaxDesign + 1) :
          vr = [pc |-> "start", fvar |-> fv,
                coords |-> [i \in 1..Len(fv) |-> IF i = 1 THEN c ELSE 1],
                fractions |-> <<>>, normalized |-> <<>>]

NormalizeCoordinates ==
    /\ vr.pc = "start"
    /\ LET f == normalizeCoordinates(vr.fvar, vr.coords)
       IN \E out \in [1..Len(f) -> {minInt16, 0, maxInt16}
                                    \cup {roundScaled(f[i].num, f[i].den) :
                                             i \in {k \in 1..Len(f) : f[k].den # 0}}] :
             /\ \A i \in 1..Len(f) : out[i] \in varCoords(f[i])
             /\ vr' = [vr EXCEPT !.pc = "done", !.fractions = f, !.normalized = out]
    /\ UNCHANGED <<font, plan, buffers, shapers, hist, pf, mb, ro, sd, it, cl, lg, lp, aat, gp>>

NextNormalize == NormalizeCoordinates

SpecNormalize == InitNormalize /\ [][NextNormalize]_vars

\* C32: every design value is taken into [Minimum, Maximum] and mapped so
\* that Minimum gives -16384, Default 0 and Maximum 16384; every normalized
\* coordinate lies in [-16384, 16384] and no quotient has the divisor 0,
\* also when Minimum = Default or Default = Maximum.
C32_Normalized ==
    vr.pc = "done" =>
        \A i \in 1..Len(vr.fvar) :
            LET a == vr.fvar[i]
                c == vr.coords[i]
                out == vr.normalized[i]
            IN /\ vr.fractions[i].den # 0
               /\ 0 - oneF2Dot14 <= out /\ out <= oneF2Dot14
               /\ c = a.Default => out = 0
               /\ c <= a.Minimum /\ a.Minimum # a.Default => out = 0 - oneF2Dot14
               /\ c >= a.Maximum /\ a.Maximum # a.Default => out = oneF2Dot14

(***************************************************************************)
(* Shaping a buffer that holds no glyph.  shape() has no test of the length *)
(* of the buffer: it sets the limits and runs the whole pipeline.  drive()  *)
(* enters its loop once on an empty buffer, with the class end of text, and *)
(* hands the entry of that class to the transition of the subtable before   *)
(* it leaves the loop.  finalReorderingIndic is the one place with a test   *)
(* of its own.                                                              *)
(***************************************************************************)
\* syllableIterator.next: the end of the run of glyphs that have the syllable
\* value of the glyph after start
RECURSIVE nextSyllable(_, _, _)
nextSyllable(info, start, end) ==
    IF end < Len(info) /\ info[end + 1].syllable = info[start + 1].syllable
    THEN nextSyllable(info, start, end + 1)
    ELSE end

RECURSIVE finalReorderingSyllables(_, _, _)
finalReorderingSyllables(info, p, start) ==
    IF start >= Len(info) THEN info
    ELSE LET end == nextSyllable(info, start, start + 1)
         IN finalReorderingSyllables(finalReorderingSyllableIndic(info, p, start, end),
                                     p, end)

finalReorderingIndic(info, p) ==
    IF Len(info) = 0 THEN info ELSE finalReorderingSyllables(info, p, 0)

EmptyKinds == {"inPlace", "insertion", "ligature", "kerx1"}

emptyContext(kind) ==
    IF kind = "kerx1"
    THEN [stack |-> [i \in 1..kerx1StackSize |-> 0], depth |-> 0,
          crossStream |-> FALSE, acted |-> FALSE, depth0 |-> 0,
          full |-> FALSE, actions |-> <<>>, popped |-> <<>>]
    ELSE IF kind = "ligature"
    THEN [matchLength |-> 0, matchPositions |-> [i \in 1..maxContextLength |-> 0],
          stored |-> <<>>]
    ELSE [mark |-> 0]

\* the buffer of no glyph after shape() has set its limits
emptyBuffer(kind) ==
    LET b == [newBuffer(<<>>) EXCEPT !.maxOps = Max(0 * maxOpsFactor, maxOpsMin)]
    IN IF kind = "kerx1"
       THEN [info |-> b.info, out |-> b.out, idx |-> b.idx, haveOutput |-> b.haveOutput,
             maxOps |-> b.maxOps, maxLen |-> b.maxLen, pos |-> <<>>, mask |-> <<>>,
             horizontal |-> TRUE, hasGPOSAttachment |-> FALSE]
       ELSE b

InitEmpty ==
    /\ hist = noHist
    /\ pf = idlePf /\ mb = idleMb /\ sd = idleSd /\ it = idleIt /\ cl = idleCl
    /\ lg = idleLg /\ lp = idleLp /\ gp = idleGp /\ vr = idleVr
    /\ \/ /\ font \in Fonts
          /\ buffers = [p \in {1} |-> newBuffer(<<>>)]
          /\ shapers = [p \in {1} |-> newShaper(<<>>)]
          /\ aat = idleAat /\ ro = idleRo
       \/ /\ font = fontTiny
          /\ buffers = <<>> /\ shapers = <<>> /\ ro = idleRo
          /\ \E kind \in EmptyKinds :
                aat = [pc |-> "new", kind |-> kind, dc |-> emptyContext(kind),
                       b |-> emptyBuffer(kind), dontAdvance |-> FALSE, forced |-> 0]
       \/ /\ font = fontTiny
          /\ buffers = <<>> /\ shapers = <<>> /\ aat = idleAat
          /\ \E script \in IndicScripts, old \in BOOLEAN :
                ro = [idleReorder("indic", <<>>)
                        EXCEPT !.pc = "buffer",
                               !.p = [script |-> script, isOldSpec |-> old, rphf |-> TRUE,
                                      uniscribeBugCompatible |-> FALSE]]
    /\ plan = newPlan(font)

FinalReorderingIndicBuffer ==
    /\ ro.pc = "buffer"
    /\ ro' = [ro EXCEPT !.pc = "done", !.info = finalReorderingIndic(ro.info, ro.p)]
    /\ UNCHANGED <<font, plan, buffers, shapers, hist, pf, mb, sd, it, cl, lg, lp, aat, gp, vr>>

NextEmpty ==
    \/ \E p \in DOMAIN shapers :
          \/ ShapeBegin(p)
          \/ AatTransition(p)
          \/ ApplyBegin(p)
          \/ ApplyNextLookup(p)
          \/ ApplyPause(p)
          \/ ApplyEnd(p)
          \/ ShapeEnd(p)
          \/ ShapeAgain(p)
    \/ DriveBegin
    \/ Drive
    \/ FinalReorderingIndicBuffer

SpecEmpty == InitEmpty /\ [][NextEmpty]_vars

\* C33: shaping a buffer of no glyph gives a buffer of no glyph, on the
\* OpenType route, through every state table of morx and kerx, and in the
\* final reordering of the Indic shaper
C33_EmptyStaysEmpty ==
    /\ \A p \in DOMAIN shapers :
          shapers[p].pc = "done" => contents(buffers[p]) = <<>>
    /\ aat.pc = "done" => contents(aat.b) = <<>>
    /\ ro.pc = "done" => ro.info = <<>>

(***************************************************************************)
(* The attachment chains that positionFinishOffsetsGPOS finds.  GPOS stores *)
(* the distance to a glyph of the buffer; applyKernx, at the first cross-   *)
(* stream subtable, chains every glyph to its neighbour, -1 in a forward    *)
(* direction and +1 otherwise, the first and the last glyph included, and   *)
(* the transition of the subtable of type 1 takes a glyph off its chain     *)
(* with the value -0x8000 and sets the flag of the buffer with any other.   *)
(* A read or write of pos outside of 0..len-1 is a panic of the run.        *)
(***************************************************************************)
\* whether propagateAttachmentOffsets(pos, i, ...) indexes pos outside of it
RECURSIVE indexesOutside(_, _)
indexesOutside(pos, i) ==
    IF i < 0 \/ i >= Len(pos) THEN TRUE
    ELSE LET chain == pos[i + 1].attachChain
             j == i + chain
         IN IF chain = 0 THEN FALSE
            ELSE IF j >= Len(pos) THEN FALSE
            ELSE indexesOutside([pos EXCEPT ![i + 1].attachChain = 0], j)

\* the loop of positionFinishOffsetsGPOS up to the call that panics
RECURSIVE propagateUntilPanic(_, _, _)
propagateUntilPanic(pos, i, direction) ==
    IF i >= Len(pos) THEN [pos |-> pos, panic |-> FALSE, i |-> i]
    ELSE IF indexesOutside(pos, i) THEN [pos |-> pos, panic |-> TRUE, i |-> i]
    ELSE propagateUntilPanic(propagateAttachmentOffsets(pos, i, direction), i + 1,
                             direction)

\* "Attach all glyphs into a chain."
attachAll(pos, direction) ==
    [k \in 1..Len(pos) |->
        [pos[k] EXCEPT !.attachType = attachTypeCursive,
                       !.attachChain = IF isForward(direction) THEN 0 - 1 ELSE 1]]

InitChain ==
    /\ font = fontTiny
    /\ plan = newPlan(font)
    /\ buffers = <<>>
    /\ shapers = <<>>
    /\ hist = noHist
    /\ pf = idlePf /\ mb = idleMb /\ ro = idleRo /\ sd = idleSd /\ it = idleIt
    /\ cl = idleCl /\ lg = idleLg /\ lp = idleLp /\ aat = idleAat /\ vr = idleVr
    /\ \E info \in GposInputs, direction \in Directions, pc \in {"position", "kerx"} :
          gp = [pc |-> pc, info |-> info,
                pos |-> [k \in 1..Len(info) |-> startPosition(info[k], direction)],
                direction |-> direction, hasGPOSAttachment |-> FALSE, steps |-> 0,
                last |-> noLast, before |-> <<>>,
                mask |-> [k \in 1..Len(info) |-> TRUE],
                horizontal |-> isHorizontal(direction), crossStream |-> FALSE,
                panic |-> FALSE]

\* the head of the loop of applyKernx for a subtable of type 1
ApplyKernx ==
    /\ gp.pc = "kerx"
    /\ \E crossStream \in BOOLEAN :
          gp' = [gp EXCEPT !.pc = "kerx1", !.crossStream = crossStream,
                           !.pos = IF crossStream THEN attachAll(gp.pos, gp.direction)
                                   ELSE gp.pos]
    /\ UNCHANGED <<font, plan, buffers, shapers, hist, pf, mb, ro, sd, it, cl, lg, lp, aat, vr>>

\* a value of an action of the subtable applied to a glyph of the stack
Kerx1Apply ==
    /\ gp.pc = "kerx1" /\ gp.steps < MaxGposSteps
    /\ \E idx \in 0..(Len(gp.info) - 1), v \in {2, kernReset} :
          gp' = [kerx1Apply([crossStream |-> gp.crossStream], gp, idx, v)
                   EXCEPT !.steps = gp.steps + 1]
    /\ UNCHANGED <<font, plan, buffers, shapers, hist, pf, mb, ro, sd, it, cl, lg, lp, aat, vr>>

PositionFinishOffsets ==
    /\ gp.pc \in {"position", "kerx1"}
    /\ LET r == propagateUntilPanic(gp.pos, 0, gp.direction)
       IN gp' = IF gp.hasGPOSAttachment
                THEN [gp EXCEPT !.pc = "finished", !.before = gp.pos, !.pos = r.pos,
                                !.panic = r.panic]
                ELSE [gp EXCEPT !.pc = "finished", !.before = gp.pos]
    /\ UNCHANGED <<font, plan, buffers, shapers, hist, pf, mb, ro, sd, it, cl, lg, lp, aat, vr>>

NextChain ==
    \/ ApplyGPOSCursive
    \/ ApplyGPOSMarks
    \/ ApplyKernx
    \/ Kerx1Apply
    \/ PositionFinishOffsets

SpecChain == InitChain /\ [][NextChain]_vars

\* C35: no call of propagateAttachmentOffsets indexes the positions outside
\* of the array, whatever chains GPOS and a cross-stream kerx subtable have
\* stored
C35_ParentInside == gp.pc = "finished" => ~gp.panic

(***************************************************************************)
(* hideDefaultIgnorables.  pf is the buffer: infos, flags, the scratch flag *)
(* hasDefaultIgnorables, the glyph Invisible, and space, what the face      *)
(* answers to NominalGlyph(' ').  A glyph is [glyph, unicode, substituted,  *)
(* cluster].                                                                *)
(***************************************************************************)
MaxHidden == 3
invisibleGlyph == 7
spaceGlyph == 3
HideFlags == {"PreserveDefaultIgnorables", "RemoveDefaultIgnorables"}

isDefaultIgnorable(info) == "Ignorable" \in info.unicode /\ ~info.substituted

otLayoutDeleteGlyphsInplace(infos) ==
    SelectSeq(infos, LAMBDA info : ~isDefaultIgnorable(info))

hideDefaultIgnorables(b) ==
    IF ~b.hasDefaultIgnorables \/ "PreserveDefaultIgnorables" \in b.flags THEN b
    ELSE LET nominal == IF b.invisible = 0 THEN b.space
                        ELSE [glyph |-> b.invisible, ok |-> FALSE]
         IN IF "RemoveDefaultIgnorables" \notin b.flags /\ nominal.ok
            THEN [b EXCEPT !.infos =
                     [k \in 1..Len(b.infos) |->
                         IF isDefaultIgnorable(b.infos[k])
                         THEN [b.infos[k] EXCEPT !.glyph = nominal.glyph]
                         ELSE b.infos[k]]]
            ELSE [b EXCEPT !.infos = otLayoutDeleteGlyphsInplace(b.infos)]

HiddenGlyphs ==
    {[glyph |-> 1, unicode |-> {}, substituted |-> FALSE],
     [glyph |-> 2, unicode |-> {"Ignorable"}, substituted |-> FALSE],
     [glyph |-> 4, unicode |-> {"Ignorable"}, substituted |-> TRUE]}

InitHide ==
    /\ font = fontTiny
    /\ plan = newPlan(font)
    /\ buffers = <<>>
    /\ shapers = <<>>
    /\ hist = noHist
    /\ mb = idleMb /\ ro = idleRo /\ sd = idleSd /\ it = idleIt /\ cl = idleCl
    /\ lg = idleLg /\ lp = idleLp /\ aat = idleAat /\ gp = idleGp /\ vr = idleVr
    /\ \E n \in 1..MaxHidden :
       \E gs \in [1..n -> HiddenGlyphs], fl \in SUBSET HideFlags,
          invisible \in {0, invisibleGlyph}, ok \in BOOLEAN :
          LET infos == [k \in 1..n |->
                          [glyph |-> gs[k].glyph, unicode |-> gs[k].unicode,
                           substituted |-> gs[k].substituted, cluster |-> k - 1]]
          IN pf = [infos |-> infos, before |-> infos, flags |-> fl,
                   hasDefaultIgnorables |->
                       \E k \in 1..n : "Ignorable" \in infos[k].unicode,
                   invisible |-> invisible,
                   space |-> [glyph |-> IF ok THEN spaceGlyph ELSE 0, ok |-> ok],
                   pc |-> "substituted"]

HideDefaultIgnorables ==
    /\ pf.pc = "substituted"
    /\ pf' = [hideDefaultIgnorables(pf) EXCEPT !.pc = "hidden"]
    /\ UNCHANGED <<font, plan, buffers, shapers, hist, mb, ro, sd, it, cl, lg, lp, aat, gp, vr>>

NextHide == HideDefaultIgnorables

SpecHide == InitHide /\ [][NextHide]_vars

\* C36: with a glyph Invisible other than 0, and neither the removal nor
\* the preservation of the default ignorables asked for, every default
\* ignorable that was not substituted has become the glyph Invisible, no
\* glyph is deleted and every other glyph is as it was
C36_ReplacedByInvisible ==
    (/\ pf.pc = "hidden"
     /\ pf.invisible # 0
     /\ pf.flags = {})
    => /\ Len(pf.infos) = Len(pf.before)
       /\ \A k \in 1..Len(pf.before) :
             pf.infos[k] = IF isDefaultIgnorable(pf.before[k])
                           THEN [pf.before[k] EXCEPT !.glyph = pf.invisible]
                           ELSE pf.before[k]

(***************************************************************************)
(* Who does the positioning.  The planner has the tables of the font (each  *)
(* present or not), the direction, and from the map whether GPOS has a      *)
(* feature kern and whether the shaper's script tag turns GPOS off.  plan   *)
(* is [pc, planner, applyMorx, applyGpos, applyKerx, applyKern,             *)
(* applyFallbackKern, executed], executed the steps that position() has     *)
(* called.                                                                  *)
(***************************************************************************)
Planners ==
    {pl \in [Morx : BOOLEAN, GSUB : BOOLEAN, GPOS : BOOLEAN, Kerx : BOOLEAN,
             Kern : BOOLEAN, horizontal : BOOLEAN, hasGposKern : BOOLEAN,
             disableGpos : BOOLEAN] :
        pl.hasGposKern => pl.GPOS}

newOtShapePlanner(pl) ==
    [tables |-> pl, applyMorx |-> pl.Morx /\ (pl.horizontal \/ ~pl.GSUB)]

compilePlan(planner) ==
    LET applyMorx == planner.applyMorx
        hasKerx == planner.tables.Kerx
        hasGSUB == ~applyMorx /\ planner.tables.GSUB
        hasGPOS == ~planner.tables.disableGpos /\ planner.tables.GPOS
        hasGposKern == planner.tables.hasGposKern
        kerx1 == hasKerx /\ ~(hasGSUB /\ hasGPOS)
        applyGpos == ~kerx1 /\ hasGPOS
        later == ~kerx1 /\ (~hasGposKern \/ ~applyGpos)
        applyKerx == kerx1 \/ (later /\ hasKerx)
        applyKern == later /\ ~hasKerx /\ planner.tables.Kern
    IN [applyMorx |-> applyMorx, applyGpos |-> applyGpos, applyKerx |-> applyKerx,
        applyKern |-> applyKern,
        applyFallbackKern |-> ~(applyGpos \/ applyKerx \/ applyKern)]

\* the steps that otShapePlan.position calls
position(sp) ==
    (IF sp.applyGpos THEN {"GPOS"} ELSE IF sp.applyKerx THEN {"kerx"} ELSE {})
    \cup (IF sp.applyKern THEN {"kern"}
          ELSE IF sp.applyFallbackKern THEN {"fallbackKern"} ELSE {})

InitCompile ==
    /\ font = fontTiny
    /\ buffers = <<>>
    /\ shapers = <<>>
    /\ hist = noHist
    /\ Others
    /\ \E pl \in Planners :
          plan = [pc |-> "planner", planner |-> newOtShapePlanner(pl),
                  applyMorx |-> FALSE, applyGpos |-> FALSE, applyKerx |-> FALSE,
                  applyKern |-> FALSE, applyFallbackKern |-> FALSE, executed |-> {}]

CompilePlan ==
    /\ plan.pc = "planner"
    /\ LET c == compilePlan(plan.planner)
       IN plan' = [plan EXCEPT !.pc = "compiled", !.applyMorx = c.applyMorx,
                               !.applyGpos = c.applyGpos, !.applyKerx = c.applyKerx,
                               !.applyKern = c.applyKern,
                               !.applyFallbackKern = c.applyFallbackKern]
    /\ UNCHANGED <<font, buffers, shapers, hist, pf, mb, ro, sd, it, cl, lg, lp, aat, gp, vr>>

Position ==
    /\ plan.pc = "compiled"
    /\ plan' = [plan EXCEPT !.pc = "positioned", !.executed = position(plan)]
    /\ UNCHANGED <<font, buffers, shapers, hist, pf, mb, ro, sd, it, cl, lg, lp, aat, gp, vr>>

NextCompile == CompilePlan \/ Position

SpecCompile == InitCompile /\ [][NextCompile]_vars

\* C37: a compiled plan never has applyGpos and applyKerx both, the position
\* step applies kerx for every plan that has applyKerx, and applyFallbackKern
\* is set exactly when applyGpos, applyKerx and applyKern are not
C37_FlagsAgree ==
    /\ plan.pc \in {"compiled", "positioned"} =>
          /\ ~(plan.applyGpos /\ plan.applyKerx)
          /\ plan.applyFallbackKern
                = ~(plan.applyGpos \/ plan.applyKerx \/ plan.applyKern)
    /\ plan.pc = "positioned" =>
          /\ plan.applyKerx => "kerx" \in plan.executed
          /\ plan.applyGpos => "GPOS" \in plan.executed

(***************************************************************************)
(* The tables of the ligature subtable as the font gives them.  The offset  *)
(* of an action is a signed number of 30 bits, so that the index into the   *)
(* component table, the glyph plus the offset, may be below 0; the index of *)
(* an entry into the action table is any number.  aat.table is the action   *)
(* table of the font, and an index outside of a slice or an array of Go is  *)
(* a panic of the run.                                                      *)
(***************************************************************************)
ActionOffsets == {0 - 3, 0, 1}

\* the action tables; the loop reads no action after one with Last
ActionTables ==
    UNION {{a \in [1..n -> [store : BOOLEAN, last : BOOLEAN, offset : ActionOffsets]] :
               \A i \in 1..(n - 1) : ~a[i].last} : n \in 1..MaxActions}

\* the entries of the state table: the flags and the index of the first action
LigatureEntries(table) ==
    [dontAdvance : BOOLEAN, setComponent : BOOLEAN, offset : BOOLEAN,
     actionIdx : 0..(Len(table) + 1)]

\* whether the loop over the actions indexes the component table or the
\* ligature table outside of it
RECURSIVE actionsOutside(_, _, _, _, _)
actionsOutside(dc, b, cursor, actionData, ligatureIdx) ==
    IF cursor = 0 THEN FALSE
    ELSE LET c == cursor - 1
             b1 == moveTo(b, matchPosition(dc, c))
         IN IF actionData = <<>> THEN FALSE
            ELSE LET action == Head(actionData)
                     componentIdx == b1.info[b1.idx + 1] + action.offset
                 IN IF componentIdx >= Len(Components) THEN FALSE
                    ELSE IF componentIdx < 0 THEN TRUE
                    ELSE LET idx2 == ligatureIdx + Components[componentIdx + 1]
                         IN IF action.store \/ action.last
                            THEN IF idx2 >= Len(Ligatures) THEN FALSE
                                 ELSE LET t == ligatureStore(dc, b1, c, Ligatures[idx2 + 1])
                                      IN IF action.last THEN FALSE
                                         ELSE actionsOutside(t.dc, t.b, c,
                                                             Tail(actionData), idx2)
                            ELSE actionsOutside(dc, b1, c, Tail(actionData), idx2)

\* the entry with the actions from its index to the end of the table
entryActions(table, entry) ==
    [dontAdvance |-> entry.dontAdvance, setComponent |-> entry.setComponent,
     offset |-> entry.offset,
     actions |-> SubSeq(table, entry.actionIdx + 1, Len(table))]

\* whether the transition indexes one of the three tables outside of it
transitionOutside(dc, b, table, entry) ==
    LET dc1 == ligatureTransition(dc, b, [entryActions(table, entry)
                                            EXCEPT !.offset = FALSE]).dc
    IN /\ entry.offset
       /\ dc1.matchLength # 0
       /\ b.idx < Len(b.info)
       /\ \/ entry.actionIdx > Len(table)
          \/ actionsOutside(dc1, b, dc1.matchLength,
                            SubSeq(table, entry.actionIdx + 1, Len(table)), 0)

InitBounds ==
    /\ font = fontTiny
    /\ plan = newPlan(font)
    /\ buffers = <<>>
    /\ shapers = <<>>
    /\ hist = noHist
    /\ pf = idlePf /\ mb = idleMb /\ ro = idleRo /\ sd = idleSd /\ it = idleIt
    /\ cl = idleCl /\ lg = idleLg /\ lp = idleLp /\ gp = idleGp /\ vr = idleVr
    /\ \E in \in LigInputs, table \in ActionTables :
          aat = [pc |-> "new", kind |-> "ligature",
                 dc |-> [matchLength |-> 0,
                         matchPositions |-> [i \in 1..maxContextLength |-> 0],
                         stored |-> <<>>],
                 b |-> [newBuffer(in) EXCEPT !.maxOps = 1],
                 dontAdvance |-> FALSE, forced |-> 0, table |-> table]

\* a turn of the loop of drive with the transition of the ligature subtable
DriveLigature ==
    /\ aat.pc = "drive"
    /\ \E e \in LigatureEntries(aat.table) :
          IF transitionOutside(aat.dc, aat.b, aat.table, e)
          THEN aat' = [aat EXCEPT !.pc = "panic", !.dontAdvance = e.dontAdvance]
          ELSE LET entry == entryActions(aat.table, e)
                   t == ligatureTransition(aat.dc, aat.b, entry)
                   b1 == t.b
               IN IF b1.idx = Len(b1.info)
                  THEN aat' = [aat EXCEPT !.pc = "done", !.dc = t.dc,
                                          !.dontAdvance = entry.dontAdvance,
                                          !.b = swapBuffers(b1)]
                  ELSE aat' = [aat EXCEPT
                                  !.dc = t.dc, !.dontAdvance = entry.dontAdvance,
                                  !.forced = IF entry.dontAdvance /\ b1.maxOps <= 0
                                             THEN 1 ELSE aat.forced,
                                  !.b = IF ~entry.dontAdvance THEN nextGlyph(b1)
                                        ELSE IF b1.maxOps <= 0
                                        THEN [nextGlyph(b1) EXCEPT !.maxOps = b1.maxOps - 2]
                                        ELSE [b1 EXCEPT !.maxOps = b1.maxOps - 1]]
    /\ UNCHANGED <<font, plan, buffers, shapers, hist, pf, mb, ro, sd, it, cl, lg, lp, gp, vr>>

NextBounds == DriveBegin \/ DriveLigature

SpecBounds == InitBounds /\ [][NextBounds]_vars

\* C38: no transition of the ligature subtable indexes the action table,
\* the component table or the ligature table outside of it, whatever the
\* offsets of the actions and the action index of the entry are
C38_InsideTables == aat.pc # "panic"

(***************************************************************************)
(* Cursive attachments by lookups that skip different glyphs.  Glyph 5 is a *)
(* ligature with an entry and an exit anchor, which a lookup with the flag  *)
(* IgnoreLigatures skips; gp.adjacent says that every attachment so far has *)
(* joined two glyphs that stand next to each other.                         *)
(***************************************************************************)
CursiveInputs == UNION {[1..n -> {1, ligatureGlyph}] : n \in 2..MaxGposLen}

InitCursive ==
    /\ font = fontTiny
    /\ plan = newPlan(font)
    /\ buffers = <<>>
    /\ shapers = <<>>
    /\ hist = noHist
    /\ pf = idlePf /\ mb = idleMb /\ ro = idleRo /\ sd = idleSd /\ it = idleIt
    /\ cl = idleCl /\ lg = idleLg /\ lp = idleLp /\ aat = idleAat /\ vr = idleVr
    /\ \E info \in CursiveInputs, direction \in Directions :
          gp = [pc |-> "position", info |-> info,
                pos |-> [k \in 1..Len(info) |-> startPosition(info[k], direction)],
                direction |-> direction, hasGPOSAttachment |-> FALSE, steps |-> 0,
                last |-> noLast, before |-> <<>>, adjacent |-> TRUE]

ApplyGPOSCursiveSkipping ==
    /\ gp.pc = "position" /\ gp.steps < MaxGposSteps
    /\ \E idx \in 0..(Len(gp.info) - 1),
          lookupProps \in {0, otRightToLeft, otIgnoreLigatures,
                           otIgnoreLigatures + otRightToLeft} :
          LET g == applyGPOSCursive(gp, idx, lookupProps)
          IN gp' = [g EXCEPT !.steps = gp.steps + 1,
                             !.adjacent = gp.adjacent
                                          /\ (g.last.ok => g.last.j - g.last.i = 1)]
    /\ UNCHANGED <<font, plan, buffers, shapers, hist, pf, mb, ro, sd, it, cl, lg, lp, aat, vr>>

NextCursive == ApplyGPOSCursiveSkipping \/ PositionFinishOffsetsGPOS

SpecCursive == InitCursive /\ [][NextCursive]_vars

\* following the attach chain from glyph i comes to a glyph of chain 0
\* within n steps
RECURSIVE reachesRoot(_, _, _)
reachesRoot(pos, i, n) ==
    IF pos[i + 1].attachChain = 0 THEN TRUE
    ELSE IF n = 0 THEN FALSE
    ELSE reachesRoot(pos, i + pos[i + 1].attachChain, n - 1)

C39_WitnessSeparated ==
    /\ gp.pc = "position" /\ gp.adjacent /\ gp.steps = 2
    /\ gp.last.ok /\ gp.last.lookupProps = otRightToLeft
    /\ gp.last.i = 0 /\ gp.last.j = 1
    /\ gp.pos[1].attachChain = 1 /\ gp.pos[2].attachChain = 0

(***************************************************************************)
(* The digest of the apply context under pause callbacks that change the    *)
(* buffer.  fontPause(kind) substitutes 1 by 3 in its first stage, calls    *)
(* the pause callback, and in its second stage has lookups for the glyph    *)
(* that the callback inserts and for the glyph that the first stage made.   *)
(***************************************************************************)
fontPause(kind) ==
    [applyMorx |-> FALSE, stall |-> 0,
     gsub |-> << LK("single", 1, <<>>, <<>>, <<3>>),
                 LK("single", dottedCircle, <<>>, <<>>, <<8>>),
                 LK("multiple", 3, <<>>, <<>>, <<4, 5>>),
                 LK("single", 6, <<>>, <<>>, <<7>>) >>,
     gpos |-> << LK("pos", 4, <<>>, <<>>, <<>>) >>,
     lookups |-> << << LM(0, FALSE), LM(1, FALSE), LM(2, FALSE), LM(3, FALSE) >>,
                    << LM(0, FALSE) >> >>,
     stages |-> << << ST(1, kind), ST(4, "nil") >>, << ST(1, "nil") >> >>]

PauseFonts == {fontPause(kind) : kind \in {"insert", "reorder", "refresh", "keep"}}

InitPause ==
    /\ font \in Fonts \cup PauseFonts
    /\ plan = newPlan(font)
    /\ \E in \in Inputs :
         /\ buffers = [p \in {1} |-> newBuffer(in)]
         /\ shapers = [p \in {1} |-> newShaper(in)]
    /\ hist = noHist
    /\ Others

SpecPause == InitPause /\ [][Next]_vars

\* the lookup that otMap.apply comes to next
nextLookup(sh) ==
    tableLookups(font, sh.table)[plan.lookups[sh.table + 1][sh.i + 1].index + 1]

\* C40: while a table is applied the digest of the apply context has every
\* glyph that is in the buffer, and the digest test lets through every
\* lookup whose coverage has a glyph of the buffer
C40_DigestCovers ==
    \A p \in DOMAIN shapers :
       LET sh == shapers[p]
           glyphs == Range(contents(buffers[p]))
       IN sh.pc \in {"stage", "string", "nested"} =>
             /\ \A g \in glyphs : mayHave(plan.applyContext.digest, g)
             /\ (/\ sh.pc = "stage"
                 /\ sh.stageI <= Len(plan.stages[sh.table + 1])
                 /\ sh.i < plan.stages[sh.table + 1][sh.stageI].lastLookup)
                => ((\E g \in glyphs : covers(nextLookup(sh), g))
                    => mayHaveDigest(collectCoverage(nextLookup(sh)),
                                     plan.applyContext.digest))

\* the lookup of the dotted circle is next and the pause callback has put
\* one into the buffer
C40_Witness ==
    /\ font = fontPause("insert")
    /\ shapers[1].pc = "stage" /\ shapers[1].table = 0
    /\ shapers[1].stageI = 2 /\ shapers[1].i = 1
    /\ dottedCircle \in Range(buffers[1].info)

\* the lookup of the glyph that a substitution of the stage before has made
\* is next
C40_WitnessSubstituted ==
    /\ font = fontPause("reorder")
    /\ shapers[1].pc = "stage" /\ shapers[1].table = 0
    /\ shapers[1].stageI = 2 /\ shapers[1].i = 2
    /\ 3 \in Range(buffers[1].info)
    /\ shapers[1].input = <<1, 2>> /\ buffers[1].info[2] = 3

=========================================================================
